---- MODULE Spec2Model ----
(***************************************************************************)
(* scrum-master: project description -> AI breakdown -> JIRA tickets.      *)
(*                                                                         *)
(* The repository holds the program twice: the layered build               *)
(* (cmd/scrum-master + internal/services + internal/repositories) and the  *)
(* monolithic build (main.go).  The model keeps both, selected by `impl`.  *)
(*                                                                         *)
(* Specifications                                                          *)
(*   Spec      one ticket-creation run: pre-check, epics, stories, with    *)
(*             the create-issue retry wrapper inside                       *)
(*   SpecRetry one invocation of one of the four retry wrappers            *)
(*   SpecChunk one application of each chunker to a text                   *)
(***************************************************************************)
EXTENDS Integers, Sequences, FiniteSets, TLC

VARIABLES
    impl,        \* "layered" | "monolith"
    config,      \* the loaded Anthropic configuration (RetryCount, RetryDelaySeconds)
    breakdown,   \* the breakdown handed to the coordinator: Seq of [Title, Stories]
    pc,          \* position of the run
    i,           \* 1-based index of the epic the coordinator is at (0 before the loop)
    j,           \* 1-based index of the story the coordinator is at (0 = the epic itself)
    epicKey,     \* local epicKey of the current epic iteration
    createdEpics,\* createdEpics map: epic title -> JIRA key (as a set of pairs)
    created,     \* issues the run reported as created, in order
    result,      \* what the run returned
    projects,    \* answer of the accessible-projects call, or NotAsked
    infoOk,      \* answer of the project-info call: "none" | "ok" | "fail"
    wrapper,     \* retry wrapper in progress, or "none"
    args,        \* arguments of the wrapper call
    attempt,     \* loop variable `attempt`
    lastErr,     \* local lastErr
    trace,       \* operation calls and sleeps of the wrapper invocation, in order
    wstatus,     \* "idle" | "call" | "sleep" | "ok" | "err"
    wret,        \* value returned by the wrapper
    tracker,     \* issues held by the tracker, in order of creation
    lastReq,     \* last create-issue request received by the tracker
    nCalls,      \* create-issue requests sent in the run
    attempted,   \* titles for which a create-issue request was sent
    lost,        \* create-issue requests applied by the tracker whose answer was lost
    issued,      \* history: the create-issue requests and the tracker's answers, in
                 \* order, in the runs that record them (issued.on)
    text,        \* chunker input
    chunkSize,   \* chunker limit
    chunks,      \* what App.splitIntoChunks returned
    ochunks,     \* what AnalysisService.chunkContent returned
    applied,     \* the chunkers that have been called
    epics,       \* merger input: Seq of epics
    merged,      \* what MergeEpics returned for epics
    remerged,    \* what MergeEpics returned for merged
    stories,     \* deduplication input: Seq of stories
    deduped,     \* what deduplicateStories returned for stories
    chunkNo,     \* ProcessProject: 1-based number of the chunk in progress (i + 1)
    projectName, \* ProcessProject: local projectName
    overview,    \* ProcessProject: local overview
    totalStories,     \* ProcessProject: local totalStories
    totalStoryPoints, \* ProcessProject: local totalStoryPoints
    final,       \* what ProcessProject / analyzeProject returned
    opts,        \* command line and processing options of the invocation
    aiCalls,     \* requests sent to the AI provider, in order
    answer,      \* what the user typed at the confirmation prompt ("" before it)
    displayed,   \* whether the breakdown was displayed
    disk,        \* the output directory: analysis file and per-chunk files
    loaded,      \* create-from-analysis: the breakdown decoded from the analysis file
    exit         \* what the command returned

vars == <<impl, config, breakdown, pc, i, j, epicKey, createdEpics, created,
          result, projects, infoOk, wrapper, args, attempt, lastErr, trace,
          wstatus, wret, tracker, lastReq, nCalls, attempted, lost, issued,
          text, chunkSize, chunks, ochunks, applied,
          epics, merged, remerged, stories, deduped,
          chunkNo, projectName, overview, totalStories, totalStoryPoints, final,
          opts, aiCalls, answer, displayed, disk, loaded, exit>>

runVars   == <<pc, i, j, epicKey, createdEpics, created, result, projects, infoOk>>
callVars  == <<wrapper, args, attempt, lastErr, trace, wstatus, wret>>
jiraVars  == <<tracker, lastReq, nCalls, attempted, lost, issued>>
chunkVars == <<text, chunkSize, chunks, ochunks, applied>>
inputVars == <<impl, config, breakdown, opts>>
mergeVars == <<epics, merged, remerged, stories, deduped>>
pipeVars  == <<chunkNo, projectName, overview, totalStories, totalStoryPoints, final>>
cmdVars   == <<answer, displayed, disk, loaded, exit>>

(***************************************************************************)
(* Bounds                                                                  *)
(***************************************************************************)
MaxEpics      == 2   \* epics in a breakdown
MaxStories    == 2   \* stories in a breakdown, over all its epics
MaxLost       == 1   \* lost answers of the tracker in one run
MaxRetryCount == 4   \* largest retry_count in a configuration file
MaxRetryDelay == 3   \* largest retry_delay_seconds in a configuration file
MaxTextLen    == 6   \* characters of a chunker input
MaxChunkSize  == 6   \* largest chunk size limit
MaxMergeEpics   == 3   \* epics handed to the merger
MaxMergeStories == 2   \* stories of all the epics handed to the merger
MaxDedupStories == 3   \* stories handed to the deduplication
MaxPipeChunks   == 2   \* chunks of one pipeline run

(***************************************************************************)
(* Values                                                                  *)
(***************************************************************************)
NoKey     == 0                 \* the empty string as a JIRA key
NoTitle   == <<0, 0>>
NoErr     == [attempt |-> 0, kind |-> "nil"]          \* a nil error
NoRet     == [ok |-> FALSE, key |-> NoKey, n |-> 0, cause |-> NoErr, wraps |-> FALSE]
NoResult  == [done |-> FALSE, ok |-> FALSE, stage |-> "", epic |-> NoTitle, cause |-> NoRet]
NoReq     == [Project |-> "", Summary |-> NoTitle, IssueType |-> "", Parent |-> NoKey]
NotAsked  == [asked |-> FALSE, ok |-> FALSE, keys |-> {}]
NoLog     == [on |-> FALSE, calls |-> <<>>]
NoArgs    == [title |-> NoTitle, issueType |-> "", epicLink |-> NoKey]

\* arguments of an AI wrapper: the chunk's 1-based index and the number of chunks
\* (the content is the chunk of that index; the create-issue arguments stay empty)
AIArgs(chunkIndex, totalChunks) ==
    [title |-> NoTitle, issueType |-> "", epicLink |-> NoKey,
     chunkIndex |-> chunkIndex, totalChunks |-> totalChunks]

\* one request to the AI provider: the prompt names chunk chunkIndex of totalChunks;
\* ok is its outcome, retried tells whether a retry wrapper made the call; name
\* and overview are those of the answer, once the caller has read them
AIRequest(chunkIndex, totalChunks, ok, retried) ==
    [chunkIndex |-> chunkIndex, totalChunks |-> totalChunks, ok |-> ok, retried |-> retried,
     name |-> <<>>, overview |-> ""]

\* the caller reads the breakdown bd decoded from the last answer in the log
Answered(log, bd) ==
    [log EXCEPT ![Len(log)].name = bd.ProjectName, ![Len(log)].overview = bd.Overview]

\* zero value of models.ProjectBreakdown; a name is a sequence of words
NoBreakdown ==
    [ProjectName |-> <<>>, Overview |-> "", Epics |-> <<>>, TotalEpics |-> 0,
     TotalStories |-> 0, TotalStoryPoints |-> 0, ProcessedChunks |-> 0]
NotReturned == [done |-> FALSE, ok |-> FALSE, err |-> "", chunk |-> 0, breakdown |-> NoBreakdown]

\* no command is running: the other specifications leave the options at this value
NoOpts    == [command |-> "none", mode |-> "", dryRun |-> FALSE, saveIntermediate |-> FALSE]
NoFile    == [exists |-> FALSE]
NoDisk    == [analysis |-> NoFile, chunks |-> {}]
NotLoaded == [done |-> FALSE, breakdown |-> NoBreakdown]
NotExited == [done |-> FALSE, err |-> ""]
NoAnswer  == [asked |-> FALSE, line |-> <<>>]

ProjectKey   == "PROJ"                    \* config.Jira.ProjectKey
ProjectKeys  == {"PROJ", "OTHER"}         \* keys the tracker may list
Impls        == {"layered", "monolith"}
Wrappers     == {"ProcessWithRetry", "CreateIssueWithRetry",
                 "processChunkWithRetry", "createJiraIssueWithRetry"}
JiraWrappers == {"CreateIssueWithRetry", "createJiraIssueWithRetry"}
AIWrappers   == Wrappers \ JiraWrappers

EpicTitle(e)     == <<e, 0>>
StoryTitle(e, s) == <<e, s>>

\* Epic e with n stories; titles are told apart by position.
EpicOf(e, n) == [Title |-> EpicTitle(e), Stories |-> [s \in 1..n |-> StoryTitle(e, s)]]

RECURSIVE Sum(_, _)
Sum(f, n) == IF n = 0 THEN 0 ELSE f[n] + Sum(f, n - 1)

Breakdowns ==
    UNION { { [e \in 1..n |-> EpicOf(e, f[e])] :
                f \in {g \in [1..n -> 0..MaxStories] : Sum(g, n) <= MaxStories} }
            : n \in 0..MaxEpics }

\* yaml values of anthropic.retry_count / retry_delay_seconds (0 when absent)
RawConfigs == [RetryCount : 0..MaxRetryCount, RetryDelaySeconds : 0..MaxRetryDelay]

DefaultRetryCount == 3
DefaultRetryDelay == 5
DefaultChunkSize  == 15000

\* App.loadConfig: defaults for absent (zero) fields
loadConfig(raw) ==
    [RetryCount        |-> IF raw.RetryCount = 0 THEN DefaultRetryCount ELSE raw.RetryCount,
     RetryDelaySeconds |-> IF raw.RetryDelaySeconds = 0 THEN DefaultRetryDelay
                           ELSE raw.RetryDelaySeconds]

\* config.LoadConfig: no defaults, Validate does not look at the retry fields
LoadConfig(raw) == raw

LoadedConfig(im, raw) == IF im = "monolith" THEN loadConfig(raw) ELSE LoadConfig(raw)

(***************************************************************************)
(* Retry wrappers                                                          *)
(***************************************************************************)
JiraAttempts  == 3     \* `attempt <= 3`
JiraDelaySecs == 2     \* `time.Sleep(2 * time.Second)`

\* variant: the create-issue wrappers allow one attempt more
MaxAttempts_oneMore(w) ==
    CASE w = "ProcessWithRetry"         -> config.RetryCount
      [] w = "processChunkWithRetry"    -> config.RetryCount
      [] w = "CreateIssueWithRetry"     -> JiraAttempts + 1
      [] w = "createJiraIssueWithRetry" -> JiraAttempts + 1

\* upper limit of `attempt` in the wrapper's for loop
MaxAttempts(w) ==
    CASE w = "ProcessWithRetry"         -> config.RetryCount
      [] w = "processChunkWithRetry"    -> config.RetryCount
      [] w = "CreateIssueWithRetry"     -> JiraAttempts
      [] w = "createJiraIssueWithRetry" -> JiraAttempts

\* variant: the create-issue wrappers sleep the configured delay as well
Delay_configured(w) == config.RetryDelaySeconds

\* seconds slept between two attempts
Delay(w) ==
    CASE w = "ProcessWithRetry"         -> config.RetryDelaySeconds
      [] w = "processChunkWithRetry"    -> config.RetryDelaySeconds
      [] w = "CreateIssueWithRetry"     -> JiraDelaySecs
      [] w = "createJiraIssueWithRetry" -> JiraDelaySecs

\* fmt.Errorf("failed after %d attempts: %w", n, lastErr); the monolith uses %v
Exhausted(w, err) ==
    [ok |-> FALSE, key |-> NoKey, n |-> MaxAttempts(w), cause |-> err,
     wraps |-> w \in {"ProcessWithRetry", "CreateIssueWithRetry"}]

Returned(k) == [ok |-> TRUE, key |-> k, n |-> 0, cause |-> NoErr, wraps |-> FALSE]

CallEv(ok, err) == [ev |-> "call", ok |-> ok, d |-> 0, err |-> err]
SleepEv(d)      == [ev |-> "sleep", ok |-> FALSE, d |-> d, err |-> NoErr]

\* entry of a wrapper: lastErr nil, attempt := 1, loop condition evaluated
Enter(w, a) ==
    /\ wrapper' = w
    /\ args' = a
    /\ attempt' = 1
    /\ lastErr' = NoErr
    /\ trace' = <<>>
    /\ IF 1 <= MaxAttempts(w)
         THEN wstatus' = "call" /\ wret' = NoRet
         ELSE wstatus' = "err"  /\ wret' = Exhausted(w, NoErr)

\* variant: the parent is set whenever an epic link is given
IssueRequest_linksEpics(a) ==
    [Project   |-> ProjectKey,
     Summary   |-> a.title,
     IssueType |-> a.issueType,
     Parent    |-> IF a.epicLink # NoKey THEN a.epicLink ELSE NoKey]

\* JiraService.CreateIssue / App.createJiraIssue: the request that is sent
IssueRequest(a) ==
    [Project   |-> ProjectKey,
     Summary   |-> a.title,
     IssueType |-> a.issueType,
     Parent    |-> IF a.epicLink # NoKey /\ a.issueType # "Epic" THEN a.epicLink ELSE NoKey]

\* key the tracker gives to its next issue
NewKey == Len(tracker) + 1

\* JiraRepository.CreateIssue: POST /rest/api/2/issue.
\*   "ok"       201 and a decodable body
\*   "rejected" transport error before the tracker acted, or a status other than 201
\*   "lost"     the tracker created the issue, the client timed out or could not decode
Outcomes == {"ok", "rejected", "lost"}

Operation(out) ==
    IF wrapper \in JiraWrappers
      THEN /\ out \in Outcomes
           /\ out = "lost" => lost < MaxLost
           /\ lastReq' = IssueRequest(args)
           /\ nCalls' = nCalls + 1
           /\ attempted' = attempted \cup {args.title}
           /\ lost' = IF out = "lost" THEN lost + 1 ELSE lost
           /\ issued' = IF issued.on
                          THEN [issued EXCEPT !.calls =
                                   Append(@, [Request |-> IssueRequest(args), Answer |-> out])]
                          ELSE issued
           /\ tracker' = IF out \in {"ok", "lost"}
                           THEN Append(tracker, [Key |-> NewKey, Fields |-> IssueRequest(args)])
                           ELSE tracker
           /\ aiCalls' = aiCalls
      ELSE /\ out \in {"ok", "rejected"}          \* ProcessWithAI: a breakdown or an error
           /\ aiCalls' = Append(aiCalls, AIRequest(args.chunkIndex, args.totalChunks,
                                                   out = "ok", TRUE))
           /\ UNCHANGED jiraVars

\* variant: `attempt <= max` guards the sleep, so the last failure sleeps too
WrapperCall_sleepsAfterLast ==
    /\ wstatus = "call"
    /\ \E out \in Outcomes :
         /\ Operation(out)
         /\ IF out = "ok"
              THEN /\ wstatus' = "ok"
                   /\ wret' = Returned(IF wrapper \in JiraWrappers THEN NewKey ELSE NoKey)
                   /\ trace' = Append(trace, CallEv(TRUE, NoErr))
                   /\ UNCHANGED <<attempt, lastErr>>
              ELSE /\ lastErr' = [attempt |-> attempt, kind |-> out]
                   /\ trace' = Append(trace, CallEv(FALSE, lastErr'))
                   /\ wstatus' = "sleep"
                   /\ UNCHANGED <<attempt, wret>>
    /\ UNCHANGED <<wrapper, args>>
    /\ UNCHANGED <<runVars, inputVars, chunkVars, mergeVars, pipeVars, cmdVars>>

\* variant: the result of a successful attempt is returned only after the loop
WrapperCall_noEarlyReturn ==
    /\ wstatus = "call"
    /\ \E out \in Outcomes :
         /\ Operation(out)
         /\ trace' = Append(trace, CallEv(out = "ok", IF out = "ok" THEN NoErr
                                                     ELSE [attempt |-> attempt, kind |-> out]))
         /\ lastErr' = IF out = "ok" THEN NoErr ELSE [attempt |-> attempt, kind |-> out]
         /\ IF attempt < MaxAttempts(wrapper)
              THEN /\ wstatus' = "sleep"
                   /\ UNCHANGED <<attempt, wret>>
              ELSE /\ attempt' = attempt + 1
                   /\ wstatus' = IF out = "ok" THEN "ok" ELSE "err"
                   /\ wret' = IF out = "ok"
                                THEN Returned(IF wrapper \in JiraWrappers THEN NewKey ELSE NoKey)
                                ELSE Exhausted(wrapper, lastErr')
    /\ UNCHANGED <<wrapper, args>>
    /\ UNCHANGED <<runVars, inputVars, chunkVars, mergeVars, pipeVars, cmdVars>>

\* variant: lastErr keeps the first error
WrapperCall_firstError ==
    /\ wstatus = "call"
    /\ \E out \in Outcomes :
         /\ Operation(out)
         /\ IF out = "ok"
              THEN /\ wstatus' = "ok"
                   /\ wret' = Returned(IF wrapper \in JiraWrappers THEN NewKey ELSE NoKey)
                   /\ trace' = Append(trace, CallEv(TRUE, NoErr))
                   /\ UNCHANGED <<attempt, lastErr>>
              ELSE /\ lastErr' = IF lastErr = NoErr THEN [attempt |-> attempt, kind |-> out]
                                 ELSE lastErr
                   /\ trace' = Append(trace, CallEv(FALSE, [attempt |-> attempt, kind |-> out]))
                   /\ IF attempt < MaxAttempts(wrapper)
                        THEN /\ wstatus' = "sleep"
                             /\ UNCHANGED <<attempt, wret>>
                        ELSE /\ attempt' = attempt + 1
                             /\ wstatus' = "err"
                             /\ wret' = Exhausted(wrapper, lastErr')
    /\ UNCHANGED <<wrapper, args>>
    /\ UNCHANGED <<runVars, inputVars, chunkVars, mergeVars, pipeVars, cmdVars>>

\* one iteration of the wrapper's loop, up to the sleep
WrapperCall ==
    /\ wstatus = "call"
    /\ \E out \in Outcomes :
         /\ Operation(out)
         /\ IF out = "ok"
              THEN /\ wstatus' = "ok"
                   /\ wret' = Returned(IF wrapper \in JiraWrappers THEN NewKey ELSE NoKey)
                   /\ trace' = Append(trace, CallEv(TRUE, NoErr))
                   /\ UNCHANGED <<attempt, lastErr>>
              ELSE /\ lastErr' = [attempt |-> attempt, kind |-> out]
                   /\ trace' = Append(trace, CallEv(FALSE, lastErr'))
                   /\ IF attempt < MaxAttempts(wrapper)
                        THEN /\ wstatus' = "sleep"
                             /\ UNCHANGED <<attempt, wret>>
                        ELSE /\ attempt' = attempt + 1
                             /\ wstatus' = "err"
                             /\ wret' = Exhausted(wrapper, lastErr')
    /\ UNCHANGED <<wrapper, args>>
    /\ UNCHANGED <<runVars, inputVars, chunkVars, mergeVars, pipeVars, cmdVars>>

\* time.Sleep between two attempts, then attempt++ and the loop condition
WrapperSleep ==
    /\ wstatus = "sleep"
    /\ trace' = Append(trace, SleepEv(Delay(wrapper)))
    /\ attempt' = attempt + 1
    /\ IF attempt' <= MaxAttempts(wrapper)
         THEN wstatus' = "call" /\ wret' = wret
         ELSE wstatus' = "err"  /\ wret' = Exhausted(wrapper, lastErr)
    /\ UNCHANGED <<wrapper, args, lastErr>>
    /\ UNCHANGED <<runVars, inputVars, jiraVars, chunkVars, mergeVars, pipeVars, cmdVars, aiCalls>>

\* a caller invokes the wrapper named in `wrapper` on its own (no run around it)
WrapperEnter ==
    /\ pc = "wrapper"
    /\ wstatus = "idle"
    /\ Enter(wrapper, args)
    /\ UNCHANGED <<runVars, inputVars, jiraVars, chunkVars, mergeVars, pipeVars, cmdVars, aiCalls>>

(***************************************************************************)
(* Ticket creation run                                                     *)
(*   layered : runCreateFromAnalysis -> TestConnection ->                  *)
(*             CreateTicketsFromBreakdown                                  *)
(*   monolith: createJiraTickets (testJiraConnection inside)               *)
(***************************************************************************)
JiraWrapperOf(im) == IF im = "monolith" THEN "createJiraIssueWithRetry" ELSE "CreateIssueWithRetry"

OkResult == [done |-> TRUE, ok |-> TRUE, stage |-> "", epic |-> NoTitle, cause |-> NoRet]
Failure(stage, title, cause) ==
    [done |-> TRUE, ok |-> FALSE, stage |-> stage, epic |-> title, cause |-> cause]

Asked(ok, keys) == [asked |-> TRUE, ok |-> ok, keys |-> keys]

\* variant: the configured key is not looked for in the answer
ListProjects_anyKey ==
    /\ pc = "list_projects"
    /\ \E ok \in BOOLEAN, keys \in SUBSET ProjectKeys :
         /\ ~ok => keys = {}
         /\ projects' = Asked(ok, keys)
         /\ IF ~ok
              THEN pc' = "done" /\ result' = Failure("authentication", NoTitle, NoRet)
              ELSE pc' = "project_info" /\ result' = result
    /\ UNCHANGED <<i, j, epicKey, createdEpics, created, infoOk>>
    /\ UNCHANGED <<callVars, inputVars, jiraVars, chunkVars, mergeVars, pipeVars, cmdVars, aiCalls>>

\* JiraService.TestConnection / App.testJiraConnection, first half:
\* GET /rest/api/2/project, then the search for the configured key
ListProjects ==
    /\ pc = "list_projects"
    /\ \E ok \in BOOLEAN, keys \in SUBSET ProjectKeys :
         /\ ~ok => keys = {}
         /\ projects' = Asked(ok, keys)
         /\ IF ~ok
              THEN pc' = "done" /\ result' = Failure("authentication", NoTitle, NoRet)
              ELSE IF ProjectKey \notin keys
                     THEN pc' = "done" /\ result' = Failure("project key not found", NoTitle, NoRet)
                     ELSE pc' = "project_info" /\ result' = result
    /\ UNCHANGED <<i, j, epicKey, createdEpics, created, infoOk>>
    /\ UNCHANGED <<callVars, inputVars, jiraVars, chunkVars, mergeVars, pipeVars, cmdVars, aiCalls>>

\* second half: GET /rest/api/2/project/{key}
GetProjectInfo ==
    /\ pc = "project_info"
    /\ \E ok \in BOOLEAN :
         /\ infoOk' = IF ok THEN "ok" ELSE "fail"
         /\ IF ok
              THEN pc' = "verified" /\ result' = result
              ELSE pc' = "done" /\ result' = Failure("project access", NoTitle, NoRet)
    /\ UNCHANGED <<i, j, epicKey, createdEpics, created, projects>>
    /\ UNCHANGED <<callVars, inputVars, jiraVars, chunkVars, mergeVars, pipeVars, cmdVars, aiCalls>>

StartEpic(k) ==
    /\ pc' = "epic"
    /\ i' = k
    /\ j' = 0
    /\ result' = result
    /\ Enter(JiraWrapperOf(impl),
             [title |-> breakdown[k].Title, issueType |-> "Epic", epicLink |-> NoKey])

\* variant: the story is linked with the key left in epicKey by the previous epic
StartStory_staleKey(k, key) ==
    /\ pc' = "story"
    /\ i' = i
    /\ j' = k
    /\ result' = result
    /\ Enter(JiraWrapperOf(impl),
             [title |-> breakdown[i].Stories[k], issueType |-> "Task", epicLink |-> epicKey])

StartStory(k, key) ==
    /\ pc' = "story"
    /\ i' = i
    /\ j' = k
    /\ result' = result
    /\ Enter(JiraWrapperOf(impl),
             [title |-> breakdown[i].Stories[k], issueType |-> "Task", epicLink |-> key])

\* variant: the run returns an error at the end if a story was skipped
Finish_failsOnSkipped ==
    /\ pc' = "done"
    /\ result' = IF Len(created) < Len(breakdown) + Sum([e \in DOMAIN breakdown |-> Len(breakdown[e].Stories)], Len(breakdown))
                   THEN Failure("story", NoTitle, NoRet)
                   ELSE OkResult
    /\ UNCHANGED <<i, j, callVars>>

Finish ==
    /\ pc' = "done"
    /\ result' = OkResult
    /\ UNCHANGED <<i, j, callVars>>

\* end of the outer loop body: next epic, or the return nil after the loop
NextEpic == IF i < Len(breakdown) THEN StartEpic(i + 1) ELSE Finish

\* after the story loop; the monolith sleeps 500ms unless this was the last epic
EndOfEpic ==
    IF impl = "monolith" /\ i < Len(breakdown)
      THEN pc' = "pause_epic" /\ UNCHANGED <<i, j, result, callVars>>
      ELSE NextEpic

\* next iteration of the story loop
NextStory(key) ==
    IF j < Len(breakdown[i].Stories) THEN StartStory(j + 1, key) ELSE EndOfEpic

\* CreateTicketsFromBreakdown is entered: createdEpics := {} and the epic loop begins
BeginCreate ==
    /\ pc = "verified"
    /\ createdEpics' = {}
    /\ IF Len(breakdown) >= 1
         THEN StartEpic(1)
         ELSE Finish
    /\ UNCHANGED <<epicKey, created, projects, infoOk>>
    /\ UNCHANGED <<inputVars, jiraVars, chunkVars, mergeVars, pipeVars, cmdVars, aiCalls>>

Report(kind, title, key) == [Kind |-> kind, Title |-> title, Key |-> key]

\* variant: a failed epic is skipped like a failed story
EpicReturned_continues ==
    /\ pc = "epic"
    /\ wstatus \in {"ok", "err"}
    /\ IF wstatus = "err"
         THEN /\ UNCHANGED <<epicKey, createdEpics, created>>
              /\ EndOfEpic
         ELSE /\ epicKey' = wret.key
              /\ createdEpics' = {p \in createdEpics : p[1] # breakdown[i].Title}
                                   \cup {<<breakdown[i].Title, wret.key>>}
              /\ created' = Append(created, Report("Epic", breakdown[i].Title, wret.key))
              /\ NextStory(wret.key)
    /\ UNCHANGED <<projects, infoOk>>
    /\ UNCHANGED <<inputVars, jiraVars, chunkVars, mergeVars, pipeVars, cmdVars, aiCalls>>

\* CreateEpic has returned
EpicReturned ==
    /\ pc = "epic"
    /\ wstatus \in {"ok", "err"}
    /\ IF wstatus = "err"
         THEN /\ pc' = "done"
              /\ result' = Failure("epic", breakdown[i].Title, wret)
              /\ UNCHANGED <<i, j, callVars, epicKey, createdEpics, created>>
         ELSE /\ epicKey' = wret.key
              /\ createdEpics' = {p \in createdEpics : p[1] # breakdown[i].Title}
                                   \cup {<<breakdown[i].Title, wret.key>>}
              /\ created' = Append(created, Report("Epic", breakdown[i].Title, wret.key))
              /\ NextStory(wret.key)
    /\ UNCHANGED <<projects, infoOk>>
    /\ UNCHANGED <<inputVars, jiraVars, chunkVars, mergeVars, pipeVars, cmdVars, aiCalls>>

\* variant: a failed story ends the run like a failed epic
StoryReturned_aborts ==
    /\ pc = "story"
    /\ wstatus \in {"ok", "err"}
    /\ IF wstatus = "err"
         THEN /\ pc' = "done"
              /\ result' = Failure("story", breakdown[i].Stories[j], wret)
              /\ UNCHANGED <<i, j, callVars, created>>
         ELSE /\ created' = Append(created, Report("Task", breakdown[i].Stories[j], wret.key))
              /\ IF impl = "monolith"
                   THEN pc' = "pause_story" /\ UNCHANGED <<i, j, result, callVars>>
                   ELSE NextStory(epicKey)
    /\ UNCHANGED <<epicKey, createdEpics, projects, infoOk>>
    /\ UNCHANGED <<inputVars, jiraVars, chunkVars, mergeVars, pipeVars, cmdVars, aiCalls>>

\* CreateTask has returned
StoryReturned ==
    /\ pc = "story"
    /\ wstatus \in {"ok", "err"}
    /\ IF wstatus = "err"
         THEN /\ created' = created                     \* warning, `continue`
              /\ NextStory(epicKey)
         ELSE /\ created' = Append(created, Report("Task", breakdown[i].Stories[j], wret.key))
              /\ IF impl = "monolith"
                   THEN pc' = "pause_story" /\ UNCHANGED <<i, j, result, callVars>>
                   ELSE NextStory(epicKey)
    /\ UNCHANGED <<epicKey, createdEpics, projects, infoOk>>
    /\ UNCHANGED <<inputVars, jiraVars, chunkVars, mergeVars, pipeVars, cmdVars, aiCalls>>

\* variant: the epic key is lost over the pause after a story
PauseStory_dropsKey ==
    /\ pc = "pause_story"
    /\ NextStory(NoKey)
    /\ UNCHANGED <<epicKey, createdEpics, created, projects, infoOk>>
    /\ UNCHANGED <<inputVars, jiraVars, chunkVars, mergeVars, pipeVars, cmdVars, aiCalls>>

\* monolith: time.Sleep(100 * time.Millisecond) after a created story
PauseStory ==
    /\ pc = "pause_story"
    /\ NextStory(epicKey)
    /\ UNCHANGED <<epicKey, createdEpics, created, projects, infoOk>>
    /\ UNCHANGED <<inputVars, jiraVars, chunkVars, mergeVars, pipeVars, cmdVars, aiCalls>>

\* monolith: time.Sleep(500 * time.Millisecond) between epics
PauseEpic ==
    /\ pc = "pause_epic"
    /\ NextEpic
    /\ UNCHANGED <<epicKey, createdEpics, created, projects, infoOk>>
    /\ UNCHANGED <<inputVars, jiraVars, chunkVars, mergeVars, pipeVars, cmdVars, aiCalls>>

(***************************************************************************)
(* Chunkers.  A text is a sequence of characters; NL is the line feed.     *)
(***************************************************************************)
NL    == "\n"
Chars == {NL, "a", "b"}

Texts == UNION {[1..n -> Chars] : n \in 0..MaxTextLen}

\* index of the first NL of s, 0 if there is none
RECURSIVE IndexNL(_, _)
IndexNL(s, k) ==
    IF k > Len(s) THEN 0 ELSE IF s[k] = NL THEN k ELSE IndexNL(s, k + 1)

\* strings.Split(s, "\n")
RECURSIVE Split(_)
Split(s) ==
    LET k == IndexNL(s, 1)
    IN  IF k = 0 THEN <<s>>
        ELSE <<SubSeq(s, 1, k - 1)>> \o Split(SubSeq(s, k + 1, Len(s)))

RECURSIVE SplitLoop(_, _, _, _, _, _)

\* variant: the chunk in progress is not appended after the loop
SplitLoop_dropsTail(lines, k, out, currentChunk, currentSize, size) ==
    IF k > Len(lines)
      THEN out
      ELSE LET lineSize == Len(lines[k]) + 1
               flush    == currentSize + lineSize > size /\ currentSize > 0
               out1     == IF flush THEN Append(out, currentChunk) ELSE out
               chunk1   == IF flush THEN <<>> ELSE currentChunk
               size1    == IF flush THEN 0 ELSE currentSize
           IN  SplitLoop(lines, k + 1, out1, chunk1 \o lines[k] \o <<NL>>,
                         size1 + lineSize, size)

\* variant: the chunk in progress is closed only once it has reached the limit
SplitLoop_flushLate(lines, k, out, currentChunk, currentSize, size) ==
    IF k > Len(lines)
      THEN IF currentSize > 0 THEN Append(out, currentChunk) ELSE out
      ELSE LET lineSize == Len(lines[k]) + 1
               flush    == currentSize >= size /\ currentSize > 0
               out1     == IF flush THEN Append(out, currentChunk) ELSE out
               chunk1   == IF flush THEN <<>> ELSE currentChunk
               size1    == IF flush THEN 0 ELSE currentSize
           IN  SplitLoop(lines, k + 1, out1, chunk1 \o lines[k] \o <<NL>>,
                         size1 + lineSize, size)

\* the for loop of App.splitIntoChunks over lines[k..]
SplitLoop(lines, k, out, currentChunk, currentSize, size) ==
    IF k > Len(lines)
      THEN IF currentSize > 0 THEN Append(out, currentChunk) ELSE out
      ELSE LET lineSize == Len(lines[k]) + 1
               flush    == currentSize + lineSize > size /\ currentSize > 0
               out1     == IF flush THEN Append(out, currentChunk) ELSE out
               chunk1   == IF flush THEN <<>> ELSE currentChunk
               size1    == IF flush THEN 0 ELSE currentSize
           IN  SplitLoop(lines, k + 1, out1, chunk1 \o lines[k] \o <<NL>>,
                         size1 + lineSize, size)

\* variant: the first chunk is cut after exactly `size` characters
splitIntoChunks_hardCap(content, size) ==
    IF Len(content) <= size
      THEN <<content>>
      ELSE <<SubSeq(content, 1, size)>>
             \o SplitLoop(Split(SubSeq(content, size + 1, Len(content))), 1, <<>>, <<>>, 0, size)

\* App.splitIntoChunks
splitIntoChunks(content, size) ==
    IF Len(content) <= size
      THEN <<content>>
      ELSE SplitLoop(Split(content), 1, <<>>, <<>>, 0, size)

\* content[lo:hi] of Go, 0-based and half open
Slice(s, lo, hi) == SubSeq(s, lo + 1, hi)

Overlap(size) == size \div 4

\* the for loop of AnalysisService.chunkContent from offset k
RECURSIVE ChunkLoop(_, _, _, _)
ChunkLoop(content, k, out, size) ==
    IF k >= Len(content)
      THEN out
      ELSE LET end == IF k + size > Len(content) THEN Len(content) ELSE k + size
           IN  ChunkLoop(content, k + size - Overlap(size), Append(out, Slice(content, k, end)), size)

\* variant: the whole-text shortcut compares with < instead of <=
chunkContent_strict(content, size) ==
    IF Len(content) < size
      THEN <<content>>
      ELSE ChunkLoop(content, 0, <<>>, size)

\* AnalysisService.chunkContent; with size 0 the step is 0 and the loop does not end
chunkContent(content, size) ==
    IF Len(content) <= size
      THEN <<content>>
      ELSE ChunkLoop(content, 0, <<>>, size)

ChunkContentReturns(content, size) ==
    Len(content) <= size \/ size - Overlap(size) > 0

\* App.loadConfig: chunk_size of 0 (absent) becomes 15000
SplitLimit == IF chunkSize = 0 THEN DefaultChunkSize ELSE chunkSize

\* the monolith calls its chunker
CallSplitIntoChunks ==
    /\ "splitIntoChunks" \notin applied
    /\ chunks' = splitIntoChunks(text, SplitLimit)
    /\ applied' = applied \cup {"splitIntoChunks"}
    /\ UNCHANGED <<text, chunkSize, ochunks>>
    /\ UNCHANGED <<runVars, callVars, inputVars, jiraVars, mergeVars, pipeVars, cmdVars, aiCalls>>

\* the layered build calls its chunker
CallChunkContent ==
    /\ "chunkContent" \notin applied
    /\ ChunkContentReturns(text, chunkSize)
    /\ ochunks' = chunkContent(text, chunkSize)
    /\ applied' = applied \cup {"chunkContent"}
    /\ UNCHANGED <<text, chunkSize, chunks>>
    /\ UNCHANGED <<runVars, callVars, inputVars, jiraVars, mergeVars, pipeVars, cmdVars, aiCalls>>

\* the layered build calls its chunker and the loop keeps appending content[0:0]
ChunkContentSpins ==
    /\ applied \cap {"chunkContent", "chunkContent spins"} = {}
    /\ ~ChunkContentReturns(text, chunkSize)
    /\ applied' = applied \cup {"chunkContent spins"}
    /\ UNCHANGED <<text, chunkSize, chunks, ochunks>>
    /\ UNCHANGED <<runVars, callVars, inputVars, jiraVars, mergeVars, pipeVars, cmdVars, aiCalls>>

(***************************************************************************)
(* Merger.  Titles and descriptions are sequences of characters; a map of  *)
(* Go is a function on its keys, visited by `range` in any order.          *)
(***************************************************************************)
\* unicode.ToLower on the letters of the titles
Lower(c) ==
    CASE c = "A" -> "a"
      [] c = "L" -> "l"
      [] c = "P" -> "p"
      [] c = "Y" -> "y"
      [] OTHER   -> c

\* strings.ToLower
ToLower(s) == [k \in 1..Len(s) |-> Lower(s[k])]

RECURSIVE TrimLeft(_)
TrimLeft(s) == IF s # <<>> /\ Head(s) = " " THEN TrimLeft(Tail(s)) ELSE s

RECURSIVE TrimRight(_)
TrimRight(s) ==
    IF s # <<>> /\ s[Len(s)] = " " THEN TrimRight(SubSeq(s, 1, Len(s) - 1)) ELSE s

\* strings.TrimSpace
TrimSpace(s) == TrimRight(TrimLeft(s))

\* key := strings.ToLower(strings.TrimSpace(title))
TitleKey(title) == ToLower(TrimSpace(title))

\* n times the character c
Rep(c, n) == [k \in 1..n |-> c]

EpicTitles  == {<<"A", "u", "t", "h">>, <<" ", "a", "u", "t", "h", " ">>, <<"P", "a", "y">>}
StoryTitles ==
    {<<" ", "L", "o", "g", "i", "n", " ", "P", "a", "g", "e", " ">>,
     <<"l", "o", "g", "i", "n", " ", "p", "a", "g", "e">>,
     <<"L", "o", "g", "o", "u", "t">>}

\* Priority is whatever the AI provider wrote; the prompt asks for these three
Priorities == {"High", "Medium", "Low", ""}

EpicDescriptions  == {<<"x">>, <<"y", "y">>, <<"z", "z">>}
StoryDescriptions == {Rep("x", 10), Rep("y", 40), Rep("z", 40)}
CriteriaLists     == {<<>>, <<"c">>}

\* a story as the provider returns it for the merger, which reads neither the
\* priority nor the dependencies
Story(t, d, ac, sp) ==
    [Title |-> t, Description |-> d, StoryPoints |-> sp, Priority |-> "Medium",
     AcceptanceCriteria |-> ac, Dependencies |-> <<>>]

Epic(t, d, pr, c, ss) ==
    [Title |-> t, Description |-> d, Priority |-> pr, Chunk |-> c, Stories |-> ss]

EmptyMap == [x \in {} |-> x]

\* m[key] = v
Put(m, key, v) == [x \in DOMAIN m \cup {key} |-> IF x = key THEN v ELSE m[x]]

RECURSIVE MergeLoop(_, _, _)

\* variant: the priority of the incoming epic always replaces the existing one
MergeLoop_lastPriority(es, k, epicMap) ==
    IF k > Len(es)
      THEN epicMap
      ELSE LET epic == es[k]
               key  == TitleKey(epic.Title)
           IN  IF key \in DOMAIN epicMap
                 THEN LET existing == epicMap[key]
                          e1 == [existing EXCEPT !.Stories = existing.Stories \o epic.Stories]
                          e2 == IF Len(epic.Description) > Len(e1.Description)
                                  THEN [e1 EXCEPT !.Description = epic.Description] ELSE e1
                          e3 == [e2 EXCEPT !.Priority = epic.Priority]
                      IN  MergeLoop(es, k + 1, Put(epicMap, key, e3))
                 ELSE MergeLoop(es, k + 1, Put(epicMap, key, epic))

\* variant: a description of the same length replaces the existing one
MergeLoop_longerOrEqual(es, k, epicMap) ==
    IF k > Len(es)
      THEN epicMap
      ELSE LET epic == es[k]
               key  == TitleKey(epic.Title)
           IN  IF key \in DOMAIN epicMap
                 THEN LET existing == epicMap[key]
                          e1 == [existing EXCEPT !.Stories = existing.Stories \o epic.Stories]
                          e2 == IF Len(epic.Description) >= Len(e1.Description)
                                  THEN [e1 EXCEPT !.Description = epic.Description] ELSE e1
                          e3 == IF epic.Priority = "High"
                                   \/ (epic.Priority = "Medium" /\ e2.Priority = "Low")
                                  THEN [e2 EXCEPT !.Priority = epic.Priority] ELSE e2
                      IN  MergeLoop(es, k + 1, Put(epicMap, key, e3))
                 ELSE MergeLoop(es, k + 1, Put(epicMap, key, epic))

\* variant: the stories of an incoming epic with a key already held are dropped
MergeLoop_keepsFirstStories(es, k, epicMap) ==
    IF k > Len(es)
      THEN epicMap
      ELSE LET epic == es[k]
               key  == TitleKey(epic.Title)
           IN  IF key \in DOMAIN epicMap
                 THEN LET e1 == epicMap[key]
                          e2 == IF Len(epic.Description) > Len(e1.Description)
                                  THEN [e1 EXCEPT !.Description = epic.Description] ELSE e1
                          e3 == IF epic.Priority = "High"
                                   \/ (epic.Priority = "Medium" /\ e2.Priority = "Low")
                                  THEN [e2 EXCEPT !.Priority = epic.Priority] ELSE e2
                      IN  MergeLoop(es, k + 1, Put(epicMap, key, e3))
                 ELSE MergeLoop(es, k + 1, Put(epicMap, key, epic))

\* the first loop of AIService.MergeEpics / App.mergeEpics over es[k..]
MergeLoop(es, k, epicMap) ==
    IF k > Len(es)
      THEN epicMap
      ELSE LET epic == es[k]
               key  == TitleKey(epic.Title)
           IN  IF key \in DOMAIN epicMap
                 THEN LET existing == epicMap[key]
                          e1 == [existing EXCEPT !.Stories = existing.Stories \o epic.Stories]
                          e2 == IF Len(epic.Description) > Len(e1.Description)
                                  THEN [e1 EXCEPT !.Description = epic.Description] ELSE e1
                          e3 == IF epic.Priority = "High"
                                   \/ (epic.Priority = "Medium" /\ e2.Priority = "Low")
                                  THEN [e2 EXCEPT !.Priority = epic.Priority] ELSE e2
                      IN  MergeLoop(es, k + 1, Put(epicMap, key, e3))
                 ELSE MergeLoop(es, k + 1, Put(epicMap, key, epic))

RECURSIVE DedupLoop(_, _, _)

\* variant: only a longer description makes the incoming story replace the held one
DedupLoop_descriptionOnly(ss, k, storyMap) ==
    IF k > Len(ss)
      THEN storyMap
      ELSE LET story == ss[k]
               key   == TitleKey(story.Title)
           IN  IF key \in DOMAIN storyMap
                 THEN LET existing == storyMap[key]
                      IN  IF Len(story.Description) > Len(existing.Description)
                            THEN DedupLoop(ss, k + 1, Put(storyMap, key, story))
                            ELSE DedupLoop(ss, k + 1, storyMap)
                 ELSE DedupLoop(ss, k + 1, Put(storyMap, key, story))

\* the first loop of deduplicateStories over ss[k..]
DedupLoop(ss, k, storyMap) ==
    IF k > Len(ss)
      THEN storyMap
      ELSE LET story == ss[k]
               key   == TitleKey(story.Title)
           IN  IF key \in DOMAIN storyMap
                 THEN LET existing == storyMap[key]
                      IN  IF \/ Len(story.Description) > Len(existing.Description)
                             \/ Len(story.AcceptanceCriteria) > Len(existing.AcceptanceCriteria)
                            THEN DedupLoop(ss, k + 1, Put(storyMap, key, story))
                            ELSE DedupLoop(ss, k + 1, storyMap)
                 ELSE DedupLoop(ss, k + 1, Put(storyMap, key, story))

\* the orders in which `range` may visit a map with these keys
Orders(keys) ==
    {o \in [1..Cardinality(keys) -> keys] : \A a, b \in DOMAIN o : a # b => o[a] # o[b]}

\* the slices deduplicateStories may return: the stories held, in any order
deduplicateStories(ss) ==
    LET storyMap == DedupLoop(ss, 1, EmptyMap)
    IN  {[k \in DOMAIN o |-> storyMap[o[k]]] : o \in Orders(DOMAIN storyMap)}

\* variant: the stories of the merged epics are not deduplicated
MergeEpics_noDedup(es) ==
    LET epicMap == MergeLoop(es, 1, EmptyMap)
    IN  {[k \in DOMAIN o |-> epicMap[o[k]]] : o \in Orders(DOMAIN epicMap)}

\* variant: the stories are deduplicated per incoming epic, before the merge
MergeEpics_dedupFirst(es) ==
    LET pre     == [k \in DOMAIN es |->
                      [es[k] EXCEPT !.Stories = CHOOSE d \in deduplicateStories(es[k].Stories) : TRUE]]
        epicMap == MergeLoop(pre, 1, EmptyMap)
    IN  {[k \in DOMAIN o |-> epicMap[o[k]]] : o \in Orders(DOMAIN epicMap)}

\* the slices AIService.MergeEpics / App.mergeEpics may return: the epics held,
\* in any order, each with its stories deduplicated
MergeEpics(es) ==
    LET epicMap == MergeLoop(es, 1, EmptyMap)
        keys    == DOMAIN epicMap
        all     == UNION {deduplicateStories(epicMap[x].Stories) : x \in keys}
        picks   == {d \in [keys -> all] :
                       \A x \in keys : d[x] \in deduplicateStories(epicMap[x].Stories)}
    IN  {[k \in DOMAIN o |-> [epicMap[o[k]] EXCEPT !.Stories = d[o[k]]]] :
            o \in Orders(keys), d \in picks}

\* MergeEpics is called on the epics of the chunks
CallMergeEpics ==
    /\ pc = "merge"
    /\ merged' \in MergeEpics(epics)
    /\ pc' = "merged"
    /\ UNCHANGED <<epics, remerged, stories, deduped>>
    /\ UNCHANGED <<i, j, epicKey, createdEpics, created, result, projects, infoOk>>
    /\ UNCHANGED <<callVars, inputVars, jiraVars, chunkVars, pipeVars, cmdVars, aiCalls>>

\* MergeEpics is called on what it returned
CallMergeEpicsAgain ==
    /\ pc = "merged"
    /\ remerged' \in MergeEpics(merged)
    /\ pc' = "remerged"
    /\ UNCHANGED <<epics, merged, stories, deduped>>
    /\ UNCHANGED <<i, j, epicKey, createdEpics, created, result, projects, infoOk>>
    /\ UNCHANGED <<callVars, inputVars, jiraVars, chunkVars, pipeVars, cmdVars, aiCalls>>

\* deduplicateStories is called on the stories of one epic
CallDeduplicateStories ==
    /\ pc = "dedup"
    /\ deduped' \in deduplicateStories(stories)
    /\ pc' = "deduped"
    /\ UNCHANGED <<epics, merged, remerged, stories>>
    /\ UNCHANGED <<i, j, epicKey, createdEpics, created, result, projects, infoOk>>
    /\ UNCHANGED <<callVars, inputVars, jiraVars, chunkVars, pipeVars, cmdVars, aiCalls>>

(***************************************************************************)
(* Analysis pipeline of the layered build: AnalysisService.ProcessProject  *)
(***************************************************************************)
\* epics the AI provider may return for a chunk
AuthEpic ==
    Epic(<<"A", "u", "t", "h">>, <<"x">>, "Low", 0,
         <<Story(<<" ", "L", "o", "g", "i", "n", " ", "P", "a", "g", "e", " ">>, Rep("x", 10), <<>>, 3)>>)
AuthEpicAgain ==
    Epic(<<" ", "a", "u", "t", "h", " ">>, <<"y", "y">>, "High", 0,
         <<Story(<<"l", "o", "g", "i", "n", " ", "p", "a", "g", "e">>, Rep("y", 40), <<"c">>, 5),
           Story(<<"L", "o", "g", "o", "u", "t">>, Rep("x", 10), <<>>, 2)>>)
PayEpic == Epic(<<"P", "a", "y">>, <<"x">>, "Medium", 0, <<>>)

\* project name and overview the provider may give to a chunk
Identities == {<<<<"Shop">>, "overview">>, <<<<"Store">>, "other">>}

\* breakdowns ProcessWithAI may decode from the provider's answer: the totals
\* are the provider's own numbers
AIResponses ==
    {[ProjectName |-> id[1], Overview |-> id[2], Epics |-> es, TotalEpics |-> 0,
      TotalStories |-> ts, TotalStoryPoints |-> tp, ProcessedChunks |-> 0] :
        id \in Identities,
        es \in {<<>>, <<AuthEpic>>, <<AuthEpicAgain>>, <<PayEpic, AuthEpic>>,
                 <<AuthEpic, AuthEpicAgain>>},
        ts \in {0, 9}, tp \in {0, 9}}

\* the per-chunk result is written when processing.save_intermediate is set (a
\* failed write is only warned about and changes nothing else: it is left out)
SaveIntermediate(n) ==
    disk' = IF opts.saveIntermediate THEN [disk EXCEPT !.chunks = @ \cup {n}] ELSE disk

\* variant: the loop variable i is passed as the chunk index
StartChunk_zeroBased(n, total) ==
    /\ chunkNo' = n
    /\ pc' = "ai"
    /\ Enter("ProcessWithRetry", AIArgs(n - 1, total))

\* the iteration of ProcessProject's loop for chunk n starts: ProcessWithRetry is called
StartChunk(n, total) ==
    /\ chunkNo' = n
    /\ pc' = "ai"
    /\ Enter("ProcessWithRetry", AIArgs(n, total))

\* ProcessProject up to the first call of ProcessWithRetry, or the error of ReadFile
ReadAndChunk ==
    /\ pc = "read"
    /\ impl = "layered"
    /\ \/ /\ ChunkContentReturns(text, chunkSize)
          /\ ochunks' = chunkContent(text, chunkSize)
          /\ applied' = applied \cup {"chunkContent"}
          /\ StartChunk(1, Len(chunkContent(text, chunkSize)))
          /\ final' = final
       \/ /\ final' = [NotReturned EXCEPT !.done = TRUE, !.err = "failed to read input file"]
          /\ pc' = "done"
          /\ UNCHANGED <<ochunks, applied, chunkNo, callVars>>
    /\ UNCHANGED <<text, chunkSize, chunks>>
    /\ UNCHANGED <<projectName, overview, totalStories, totalStoryPoints>>
    /\ UNCHANGED <<i, j, epicKey, createdEpics, created, result, projects, infoOk>>
    /\ UNCHANGED <<inputVars, jiraVars, mergeVars, cmdVars, aiCalls>>

\* variant: the name of the last chunk is kept
NextName_lastWins(current, incoming, n) == incoming

\* projectName after chunk n has answered with the name incoming: the first
\* chunk's name, then " (Merged)" is added whenever the names differ
NextName(current, incoming, n) ==
    IF n = 1 THEN incoming
    ELSE IF incoming # current THEN Append(current, "(Merged)") ELSE current

\* ProcessWithRetry has returned for chunk chunkNo: the rest of the iteration
ChunkReturned ==
    /\ pc = "ai"
    /\ impl = "layered"
    /\ wstatus \in {"ok", "err"}
    /\ IF wstatus = "err"
         THEN /\ final' = [NotReturned EXCEPT !.done = TRUE, !.err = "failed to process chunk",
                                              !.chunk = chunkNo]
              /\ pc' = "done"
              /\ UNCHANGED <<epics, chunkNo, projectName, overview, totalStories,
                             totalStoryPoints, callVars, disk, aiCalls>>
         ELSE \E bd \in AIResponses :
                /\ aiCalls' = Answered(aiCalls, bd)
                /\ SaveIntermediate(chunkNo)
                /\ epics' = epics \o bd.Epics
                /\ totalStories' = totalStories + bd.TotalStories
                /\ totalStoryPoints' = totalStoryPoints + bd.TotalStoryPoints
                /\ projectName' = NextName(projectName, bd.ProjectName, chunkNo)
                /\ overview' = IF chunkNo = 1 THEN bd.Overview ELSE overview
                /\ IF chunkNo < Len(ochunks)
                     THEN StartChunk(chunkNo + 1, Len(ochunks))
                     ELSE pc' = "merge" /\ UNCHANGED <<chunkNo, callVars>>
                /\ final' = final
    /\ UNCHANGED <<merged, remerged, stories, deduped>>
    /\ UNCHANGED <<i, j, epicKey, createdEpics, created, result, projects, infoOk>>
    /\ UNCHANGED <<inputVars, jiraVars, chunkVars>>
    /\ UNCHANGED <<answer, displayed, loaded, exit>>

\* number of stories of the epics
TotalStories(es) == Sum([k \in DOMAIN es |-> Len(es[k].Stories)], Len(es))

\* story points of all the stories of the epics
RECURSIVE Points(_)
Points(es) ==
    IF es = <<>> THEN 0
    ELSE Sum([m \in DOMAIN Head(es).Stories |-> Head(es).Stories[m].StoryPoints],
             Len(Head(es).Stories)) + Points(Tail(es))

\* variant: the final breakdown carries the totals summed over the chunks
Finalize_reportedTotals ==
    /\ pc = "merged"
    /\ impl = "layered"
    /\ final' = [done |-> TRUE, ok |-> TRUE, err |-> "", chunk |-> 0,
                 breakdown |-> [ProjectName      |-> projectName,
                                Overview         |-> overview,
                                Epics            |-> merged,
                                TotalEpics       |-> Len(merged),
                                TotalStories     |-> totalStories,
                                TotalStoryPoints |-> totalStoryPoints,
                                ProcessedChunks  |-> Len(ochunks)]]
    /\ pc' = "done"
    /\ UNCHANGED <<chunkNo, projectName, overview, totalStories, totalStoryPoints>>
    /\ UNCHANGED <<i, j, epicKey, createdEpics, created, result, projects, infoOk>>
    /\ UNCHANGED <<callVars, inputVars, jiraVars, chunkVars, mergeVars, cmdVars, aiCalls>>

\* ProcessProject after MergeEpics: the final totals and the breakdown returned
Finalize ==
    /\ pc = "merged"
    /\ impl = "layered"
    /\ final' = [done |-> TRUE, ok |-> TRUE, err |-> "", chunk |-> 0,
                 breakdown |-> [ProjectName      |-> projectName,
                                Overview         |-> overview,
                                Epics            |-> merged,
                                TotalEpics       |-> Len(merged),
                                TotalStories     |-> TotalStories(merged),
                                TotalStoryPoints |-> Points(merged),
                                ProcessedChunks  |-> Len(ochunks)]]
    /\ pc' = "done"
    /\ UNCHANGED <<chunkNo, projectName, overview, totalStories, totalStoryPoints>>
    /\ UNCHANGED <<i, j, epicKey, createdEpics, created, result, projects, infoOk>>
    /\ UNCHANGED <<callVars, inputVars, jiraVars, chunkVars, mergeVars, cmdVars, aiCalls>>

(***************************************************************************)
(* Analysis of the monolithic build: App.analyzeProject                    *)
(***************************************************************************)
\* breakdowns App.processWithAI may decode from the provider's answer
MonoResponses ==
    {[ProjectName |-> id[1], Overview |-> id[2], Epics |-> es,
      TotalChunks |-> 0, InputFileSize |-> 0, ProcessingMode |-> ""] :
        id \in Identities,
        es \in {<<>>, <<AuthEpic>>, <<AuthEpicAgain>>, <<AuthEpic, AuthEpicAgain>>}}

\* the iteration of analyzeProject's loop for chunk n starts
StartMonoChunk(n, total) ==
    /\ chunkNo' = n
    /\ pc' = "ai"
    /\ Enter("processChunkWithRetry", AIArgs(n, total))

\* analyzeProject up to its first call of the provider
AnalyzeStart ==
    /\ pc = "analyze"
    /\ impl = "monolith"
    /\ IF Len(text) <= chunkSize
         THEN /\ pc' = "direct"
              /\ UNCHANGED <<chunks, applied, chunkNo, callVars>>
         ELSE /\ chunks' = splitIntoChunks(text, chunkSize)
              /\ applied' = applied \cup {"splitIntoChunks"}
              /\ StartMonoChunk(1, Len(splitIntoChunks(text, chunkSize)))
    /\ UNCHANGED <<text, chunkSize, ochunks>>
    /\ UNCHANGED <<projectName, overview, totalStories, totalStoryPoints, final>>
    /\ UNCHANGED <<i, j, epicKey, createdEpics, created, result, projects, infoOk>>
    /\ UNCHANGED <<inputVars, jiraVars, mergeVars, cmdVars, aiCalls>>

\* the single-chunk path: `return app.processWithAI(content, 1, 1)`
DirectAI ==
    /\ pc = "direct"
    /\ impl = "monolith"
    /\ \/ \E bd \in MonoResponses :
            /\ aiCalls' = Answered(Append(aiCalls, AIRequest(1, 1, TRUE, FALSE)), bd)
            /\ final' = [done |-> TRUE, ok |-> TRUE, err |-> "", chunk |-> 0, breakdown |-> bd]
       \/ /\ aiCalls' = Append(aiCalls, AIRequest(1, 1, FALSE, FALSE))
          /\ final' = [NotReturned EXCEPT !.done = TRUE, !.err = "API request failed"]
    /\ pc' = "done"
    /\ UNCHANGED <<chunkNo, projectName, overview, totalStories, totalStoryPoints>>
    /\ UNCHANGED <<i, j, epicKey, createdEpics, created, result, projects, infoOk>>
    /\ UNCHANGED <<callVars, inputVars, jiraVars, chunkVars, mergeVars, cmdVars>>

\* `breakdown.Epics[j].Chunk = i + 1`
Tagged(es, n) == [k \in DOMAIN es |-> [es[k] EXCEPT !.Chunk = n]]

\* processChunkWithRetry has returned for chunk chunkNo: the rest of the iteration
MonoChunkReturned ==
    /\ pc = "ai"
    /\ impl = "monolith"
    /\ wstatus \in {"ok", "err"}
    /\ IF wstatus = "err"
         THEN /\ final' = [NotReturned EXCEPT !.done = TRUE, !.err = "failed to process chunk",
                                              !.chunk = chunkNo]
              /\ pc' = "done"
              /\ UNCHANGED <<epics, chunkNo, projectName, overview, callVars, disk, aiCalls>>
         ELSE \E bd \in MonoResponses :
                /\ aiCalls' = Answered(aiCalls, bd)
                /\ IF chunkNo = 1
                     THEN projectName' = bd.ProjectName /\ overview' = bd.Overview
                     ELSE UNCHANGED <<projectName, overview>>
                /\ epics' = epics \o Tagged(bd.Epics, chunkNo)
                /\ SaveIntermediate(chunkNo)
                /\ IF chunkNo < Len(chunks)
                     THEN StartMonoChunk(chunkNo + 1, Len(chunks))
                     ELSE pc' = "merge" /\ UNCHANGED <<chunkNo, callVars>>
                /\ final' = final
    /\ UNCHANGED <<totalStories, totalStoryPoints>>
    /\ UNCHANGED <<merged, remerged, stories, deduped>>
    /\ UNCHANGED <<i, j, epicKey, createdEpics, created, result, projects, infoOk>>
    /\ UNCHANGED <<inputVars, jiraVars, chunkVars>>
    /\ UNCHANGED <<answer, displayed, loaded, exit>>

\* analyzeProject after mergeEpics: the breakdown returned
MonoFinalize ==
    /\ pc = "merged"
    /\ impl = "monolith"
    /\ final' = [done |-> TRUE, ok |-> TRUE, err |-> "", chunk |-> 0,
                 breakdown |-> [ProjectName    |-> projectName,
                                Overview       |-> overview,
                                Epics          |-> merged,
                                TotalChunks    |-> Len(chunks),
                                InputFileSize  |-> Len(text),
                                ProcessingMode |-> opts.mode]]
    /\ pc' = "done"
    /\ UNCHANGED <<chunkNo, projectName, overview, totalStories, totalStoryPoints>>
    /\ UNCHANGED <<i, j, epicKey, createdEpics, created, result, projects, infoOk>>
    /\ UNCHANGED <<callVars, inputVars, jiraVars, chunkVars, mergeVars, cmdVars, aiCalls>>

(***************************************************************************)
(* The analysis file: encoding/json on the breakdown types                 *)
(*   An object is a record over its keys, an array a sequence.  A nil      *)
(*   slice and an empty one are both the empty sequence.  The time stamps  *)
(*   (analysis_time, processed_at) are left out.                           *)
(***************************************************************************)
\* json.Unmarshal leaves a field at its zero value when the object lacks the key
Field(o, key, zero) == IF key \in DOMAIN o THEN o[key] ELSE zero

\* models.Story
StoryJSON(s) ==
    [title |-> s.Title, description |-> s.Description, story_points |-> s.StoryPoints,
     priority |-> s.Priority, acceptance_criteria |-> s.AcceptanceCriteria,
     dependencies |-> s.Dependencies]

\* main.Story: `json:"dependencies,omitempty"`.  EpicTitle (omitempty) is
\* neither set nor read by the program and is left out.
MonoStoryJSON(s) ==
    IF s.Dependencies = <<>>
      THEN [title |-> s.Title, description |-> s.Description, priority |-> s.Priority,
            story_points |-> s.StoryPoints, acceptance_criteria |-> s.AcceptanceCriteria]
      ELSE StoryJSON(s)

StoryFrom(o) ==
    [Title              |-> Field(o, "title", <<>>),
     Description        |-> Field(o, "description", <<>>),
     StoryPoints        |-> Field(o, "story_points", 0),
     Priority           |-> Field(o, "priority", ""),
     AcceptanceCriteria |-> Field(o, "acceptance_criteria", <<>>),
     Dependencies       |-> Field(o, "dependencies", <<>>)]

\* models.Epic
EpicJSON(e) ==
    [title |-> e.Title, description |-> e.Description, priority |-> e.Priority,
     chunk |-> e.Chunk, stories |-> [k \in DOMAIN e.Stories |-> StoryJSON(e.Stories[k])]]

\* main.Epic: `json:"chunk,omitempty"`
MonoEpicJSON(e) ==
    IF e.Chunk = 0
      THEN [title |-> e.Title, description |-> e.Description, priority |-> e.Priority,
            stories |-> [k \in DOMAIN e.Stories |-> MonoStoryJSON(e.Stories[k])]]
      ELSE [title |-> e.Title, description |-> e.Description, priority |-> e.Priority,
            stories |-> [k \in DOMAIN e.Stories |-> MonoStoryJSON(e.Stories[k])],
            chunk |-> e.Chunk]

EpicFrom(o) ==
    [Title       |-> Field(o, "title", <<>>),
     Description |-> Field(o, "description", <<>>),
     Priority    |-> Field(o, "priority", ""),
     Chunk       |-> Field(o, "chunk", 0),
     Stories     |-> [k \in DOMAIN Field(o, "stories", <<>>) |-> StoryFrom(o.stories[k])]]

\* models.ProjectBreakdown
BreakdownJSON(b) ==
    [project_name |-> b.ProjectName, overview |-> b.Overview,
     epics |-> [k \in DOMAIN b.Epics |-> EpicJSON(b.Epics[k])],
     total_epics |-> b.TotalEpics, total_stories |-> b.TotalStories,
     total_story_points |-> b.TotalStoryPoints, processed_chunks |-> b.ProcessedChunks]

BreakdownFrom(o) ==
    [ProjectName      |-> Field(o, "project_name", <<>>),
     Overview         |-> Field(o, "overview", ""),
     Epics            |-> [k \in DOMAIN Field(o, "epics", <<>>) |-> EpicFrom(o.epics[k])],
     TotalEpics       |-> Field(o, "total_epics", 0),
     TotalStories     |-> Field(o, "total_stories", 0),
     TotalStoryPoints |-> Field(o, "total_story_points", 0),
     ProcessedChunks  |-> Field(o, "processed_chunks", 0)]

\* main.ProjectBreakdown: `json:"total_chunks,omitempty"`
MonoBreakdownJSON(b) ==
    IF b.TotalChunks = 0
      THEN [project_name |-> b.ProjectName, overview |-> b.Overview,
            epics |-> [k \in DOMAIN b.Epics |-> MonoEpicJSON(b.Epics[k])],
            input_file_size |-> b.InputFileSize, processing_mode |-> b.ProcessingMode]
      ELSE [project_name |-> b.ProjectName, overview |-> b.Overview,
            epics |-> [k \in DOMAIN b.Epics |-> MonoEpicJSON(b.Epics[k])],
            total_chunks |-> b.TotalChunks,
            input_file_size |-> b.InputFileSize, processing_mode |-> b.ProcessingMode]

MonoBreakdownFrom(o) ==
    [ProjectName    |-> Field(o, "project_name", <<>>),
     Overview       |-> Field(o, "overview", ""),
     Epics          |-> [k \in DOMAIN Field(o, "epics", <<>>) |-> EpicFrom(o.epics[k])],
     TotalChunks    |-> Field(o, "total_chunks", 0),
     InputFileSize  |-> Field(o, "input_file_size", 0),
     ProcessingMode |-> Field(o, "processing_mode", "")]

File(doc) == [exists |-> TRUE, json |-> doc]

\* SaveAnalysisResult: the breakdown inside a models.AnalysisResult;
\* App.saveAnalysis: the breakdown itself
SaveJSON(im, b, mode) ==
    IF im = "monolith"
      THEN File(MonoBreakdownJSON(b))
      ELSE File([project_breakdown |-> BreakdownJSON(b), processing_mode |-> mode])

\* variant: the file is decoded as a bare breakdown by both builds
LoadJSON_bare(im, file) ==
    IF im = "monolith"
      THEN MonoBreakdownFrom(file.json)
      ELSE BreakdownFrom(file.json)

\* helpers.LoadJSON into a models.AnalysisResult, then result.ProjectBreakdown;
\* json.Unmarshal into a main.ProjectBreakdown
LoadJSON(im, file) ==
    IF im = "monolith"
      THEN MonoBreakdownFrom(file.json)
      ELSE BreakdownFrom(Field(file.json, "project_breakdown", BreakdownJSON(NoBreakdown)))

(***************************************************************************)
(* Commands                                                                *)
(*   layered : runProcess, runCreateFromAnalysis                           *)
(*   monolith: App.processProject, App.createFromAnalysis                  *)
(* opts.mode is the mode in force: the --mode flag, else processing.mode   *)
(* of the configuration, else "full".  The configuration is taken to load  *)
(* and to hold the API keys.                                               *)
(***************************************************************************)
Commands == {"process", "create-from-analysis"}
Modes    == {"full", "analyze-only", "create-only"}

\* lines the user may type at the prompt
Responses == {<<"y">>, <<" ", "Y", "e", "s", " ">>, <<"n">>, <<>>}

\* variant: every answer but "n" confirms
Confirmed_notNo(response) == ToLower(TrimSpace(response)) # <<"n">>

\* confirmCreation: strings.TrimSpace(strings.ToLower(response)) is "y" or "yes"
Confirmed(response) == ToLower(TrimSpace(response)) \in {<<"y">>, <<"y", "e", "s">>}

Exit(err) == [done |-> TRUE, err |-> err]

\* the breakdown as the coordinator walks it: epics and their stories by position
Coordinated(es) == [e \in 1..Len(es) |-> EpicOf(e, Len(es[e].Stories))]

\* runProcess up to the call of ProcessProject: the mode is read and printed
runProcess ==
    /\ pc = "start"
    /\ impl = "layered"
    /\ opts.command = "process"
    /\ pc' = "read"
    /\ UNCHANGED <<i, j, epicKey, createdEpics, created, result, projects, infoOk>>
    /\ UNCHANGED <<callVars, inputVars, jiraVars, chunkVars, mergeVars, pipeVars, cmdVars, aiCalls>>

\* runProcess after ProcessProject: display, save, return
ProcessReturned ==
    /\ pc = "done"
    /\ impl = "layered"
    /\ opts.command = "process"
    /\ final.done
    /\ IF ~final.ok
         THEN /\ exit' = Exit("failed to process project")
              /\ UNCHANGED <<displayed, disk>>
         ELSE /\ displayed' = TRUE
              /\ \/ /\ disk' = [disk EXCEPT !.analysis = SaveJSON(impl, final.breakdown, opts.mode)]
                    /\ exit' \in {Exit(""), Exit("failed to save analysis result")}
                 \/ /\ disk' = disk
                    /\ exit' = Exit("failed to save analysis result")
    /\ pc' = "exit"
    /\ UNCHANGED <<answer, loaded>>
    /\ UNCHANGED <<i, j, epicKey, createdEpics, created, result, projects, infoOk>>
    /\ UNCHANGED <<callVars, inputVars, jiraVars, chunkVars, mergeVars, pipeVars, aiCalls>>

\* App.processProject up to the call of analyzeProject: the input file is
\* read, then the mode is looked at
processProject ==
    /\ pc = "start"
    /\ impl = "monolith"
    /\ opts.command = "process"
    /\ \/ pc' = "exit" /\ exit' = Exit("failed to read input file")
       \/ CASE opts.mode \in {"analyze-only", "full"} ->
                 pc' = "analyze" /\ exit' = exit
            [] opts.mode = "create-only" ->
                 pc' = "exit" /\ exit' = Exit("create-only mode requires using 'create-from-analysis' command")
            [] OTHER ->
                 pc' = "exit" /\ exit' = Exit("unknown processing mode")
    /\ UNCHANGED <<answer, displayed, disk, loaded>>
    /\ UNCHANGED <<i, j, epicKey, createdEpics, created, result, projects, infoOk>>
    /\ UNCHANGED <<callVars, inputVars, jiraVars, chunkVars, mergeVars, pipeVars, aiCalls>>

\* App.processProject after analyzeProject, up to the confirmation prompt
Analyzed ==
    /\ pc = "done"
    /\ impl = "monolith"
    /\ opts.command = "process"
    /\ final.done /\ ~result.done
    /\ IF ~final.ok
         THEN /\ exit' = Exit("analysis failed")
              /\ pc' = "exit"
              /\ UNCHANGED <<displayed, disk>>
         ELSE IF opts.mode = "analyze-only"
           THEN /\ pc' = "exit"
                /\ displayed' = displayed
                /\ \/ /\ disk' = [disk EXCEPT !.analysis = SaveJSON(impl, final.breakdown, opts.mode)]
                      /\ exit' \in {Exit(""), Exit("failed to save analysis")}
                   \/ /\ disk' = disk
                      /\ exit' = Exit("failed to save analysis")
           ELSE /\ disk' = IF opts.saveIntermediate
                               THEN [disk EXCEPT !.analysis =
                                        SaveJSON(impl, final.breakdown, opts.mode)]
                               ELSE disk
                /\ displayed' = TRUE
                /\ IF opts.dryRun
                     THEN pc' = "exit" /\ exit' = Exit("")
                     ELSE pc' = "confirm" /\ exit' = exit
    /\ UNCHANGED <<answer, loaded>>
    /\ UNCHANGED <<i, j, epicKey, createdEpics, created, result, projects, infoOk>>
    /\ UNCHANGED <<callVars, inputVars, jiraVars, chunkVars, mergeVars, pipeVars, aiCalls>>

\* variant: the dry-run flag is not looked at
LoadAnalysis_ignoresDryRun ==
    /\ pc = "start"
    /\ opts.command = "create-from-analysis"
    /\ IF ~disk.analysis.exists
         THEN /\ exit' = Exit("failed to load analysis file")
              /\ pc' = "exit"
              /\ UNCHANGED <<loaded, displayed>>
         ELSE /\ loaded' = [done |-> TRUE, breakdown |-> LoadJSON(impl, disk.analysis)]
              /\ displayed' = TRUE
              /\ pc' = "confirm" /\ exit' = exit
    /\ UNCHANGED <<answer, disk>>
    /\ UNCHANGED <<i, j, epicKey, createdEpics, created, result, projects, infoOk>>
    /\ UNCHANGED <<callVars, inputVars, jiraVars, chunkVars, mergeVars, pipeVars, aiCalls>>

\* runCreateFromAnalysis / App.createFromAnalysis up to the confirmation prompt
LoadAnalysis ==
    /\ pc = "start"
    /\ opts.command = "create-from-analysis"
    /\ IF ~disk.analysis.exists
         THEN /\ exit' = Exit("failed to load analysis file")
              /\ pc' = "exit"
              /\ UNCHANGED <<loaded, displayed>>
         ELSE /\ loaded' = [done |-> TRUE, breakdown |-> LoadJSON(impl, disk.analysis)]
              /\ displayed' = TRUE
              /\ IF opts.dryRun
                   THEN pc' = "exit" /\ exit' = Exit("")
                   ELSE pc' = "confirm" /\ exit' = exit
    /\ UNCHANGED <<answer, disk>>
    /\ UNCHANGED <<i, j, epicKey, createdEpics, created, result, projects, infoOk>>
    /\ UNCHANGED <<callVars, inputVars, jiraVars, chunkVars, mergeVars, pipeVars, aiCalls>>

\* the breakdown the command holds when it asks
Held == IF opts.command = "process" THEN final.breakdown ELSE loaded.breakdown

\* variant: a process command whose user declines analyses the input again
Confirm_reanalyses ==
    /\ pc = "confirm"
    /\ \E response \in Responses :
         /\ answer' = [asked |-> TRUE, line |-> response]
         /\ IF Confirmed(response)
              THEN /\ pc' = "list_projects"
                   /\ breakdown' = Coordinated(Held.Epics)
                   /\ exit' = exit
              ELSE /\ pc' = IF opts.command = "process" THEN "analyze" ELSE "exit"
                   /\ breakdown' = breakdown
                   /\ exit' = IF opts.command = "process" THEN exit ELSE Exit("")
    /\ UNCHANGED <<impl, config, opts, displayed, disk, loaded>>
    /\ UNCHANGED <<i, j, epicKey, createdEpics, created, result, projects, infoOk>>
    /\ UNCHANGED <<callVars, jiraVars, chunkVars, mergeVars, pipeVars, aiCalls>>

\* the confirmation prompt; on "y" or "yes" the tracker is turned to
Confirm ==
    /\ pc = "confirm"
    /\ \E response \in Responses :
         /\ answer' = [asked |-> TRUE, line |-> response]
         /\ IF Confirmed(response)
              THEN /\ pc' = "list_projects"
                   /\ breakdown' = Coordinated(Held.Epics)
                   /\ exit' = exit
              ELSE /\ pc' = "exit"
                   /\ breakdown' = breakdown
                   /\ exit' = Exit("")
    /\ UNCHANGED <<impl, config, opts, displayed, disk, loaded>>
    /\ UNCHANGED <<i, j, epicKey, createdEpics, created, result, projects, infoOk>>
    /\ UNCHANGED <<callVars, jiraVars, chunkVars, mergeVars, pipeVars, aiCalls>>

\* TestConnection / CreateTicketsFromBreakdown / createJiraTickets has returned
CreateReturned ==
    /\ pc = "done"
    /\ result.done
    /\ exit' = Exit(IF result.ok THEN "" ELSE "failed to create JIRA tickets")
    /\ pc' = "exit"
    /\ UNCHANGED <<answer, displayed, disk, loaded>>
    /\ UNCHANGED <<i, j, epicKey, createdEpics, created, result, projects, infoOk>>
    /\ UNCHANGED <<callVars, inputVars, jiraVars, chunkVars, mergeVars, pipeVars, aiCalls>>

(***************************************************************************)
(* Specifications                                                          *)
(***************************************************************************)
\* the configuration file of the runs: values that differ from the fixed 3 and 2s
RunRawConfigs == {[RetryCount |-> 1, RetryDelaySeconds |-> 1]}

IdleCall ==
    /\ args = NoArgs /\ attempt = 0 /\ lastErr = NoErr /\ trace = <<>>
    /\ wstatus = "idle" /\ wret = NoRet

IdleRun ==
    /\ i = 0 /\ j = 0 /\ epicKey = NoKey /\ createdEpics = {} /\ created = <<>>
    /\ result = NoResult /\ projects = NotAsked /\ infoOk = "none"

IdleJira ==
    /\ tracker = <<>> /\ lastReq = NoReq /\ nCalls = 0 /\ attempted = {} /\ lost = 0
    /\ issued = NoLog

IdleChunk == text = <<>> /\ chunkSize = 0 /\ chunks = <<>> /\ ochunks = <<>> /\ applied = {}

IdleMerge ==
    epics = <<>> /\ merged = <<>> /\ remerged = <<>> /\ stories = <<>> /\ deduped = <<>>

IdlePipe ==
    /\ chunkNo = 0 /\ projectName = <<>> /\ overview = "" /\ totalStories = 0
    /\ totalStoryPoints = 0 /\ final = NotReturned

IdleCmd ==
    /\ opts = NoOpts /\ aiCalls = <<>> /\ answer = NoAnswer /\ displayed = FALSE
    /\ disk = NoDisk /\ loaded = NotLoaded /\ exit = NotExited

Init ==
    /\ impl \in Impls
    /\ \E raw \in RunRawConfigs : config = LoadedConfig(impl, raw)
    /\ breakdown \in Breakdowns
    /\ pc = "list_projects"
    /\ wrapper = "none"
    /\ IdleRun /\ IdleCall /\ IdleJira /\ IdleChunk /\ IdleMerge /\ IdlePipe /\ IdleCmd

Next ==
    \/ ListProjects
    \/ GetProjectInfo
    \/ BeginCreate
    \/ WrapperCall
    \/ WrapperSleep
    \/ EpicReturned
    \/ StoryReturned
    \/ PauseStory
    \/ PauseEpic

Spec == Init /\ [][Next]_vars

\* breakdowns of the runs that are compared: no epic, epics without stories,
\* several stories under one epic, stories under two epics
PairBreakdowns ==
    {<<>>, <<EpicOf(1, 0)>>, <<EpicOf(1, 2)>>, <<EpicOf(1, 1), EpicOf(2, 1)>>,
     <<EpicOf(1, 0), EpicOf(2, 2)>>}

\* a ticket creation run of either build that records its create-issue calls
InitPair ==
    /\ impl \in Impls
    /\ \E raw \in RunRawConfigs : config = LoadedConfig(impl, raw)
    /\ breakdown \in PairBreakdowns
    /\ pc = "list_projects"
    /\ wrapper = "none"
    /\ IdleRun /\ IdleCall /\ IdleChunk /\ IdleMerge /\ IdlePipe /\ IdleCmd
    /\ tracker = <<>> /\ lastReq = NoReq /\ nCalls = 0 /\ attempted = {} /\ lost = 0
    /\ issued = [on |-> TRUE, calls |-> <<>>]

SpecPair == InitPair /\ [][Next]_vars

\* the same runs, each tracker call returning and each sleep ending: the run is
\* one sequential function, which takes its next step whenever it has one
SpecPairFair == InitPair /\ [][Next]_vars /\ WF_vars(Next)

\* arguments a caller may hand to a create-issue wrapper
JiraArgs ==
    [title : {EpicTitle(1)}, issueType : {"Epic", "Task"}, epicLink : {NoKey, 7}]

WrappersOf(im) ==
    IF im = "monolith" THEN {"processChunkWithRetry", "createJiraIssueWithRetry"}
                       ELSE {"ProcessWithRetry", "CreateIssueWithRetry"}

InitRetry ==
    /\ impl \in Impls
    /\ \E raw \in RawConfigs : config = LoadedConfig(impl, raw)
    /\ breakdown = <<>>
    /\ pc = "wrapper"
    /\ wrapper \in WrappersOf(impl)
    /\ args \in (IF wrapper \in JiraWrappers THEN JiraArgs ELSE {AIArgs(1, 1)})
    /\ attempt = 0 /\ lastErr = NoErr /\ trace = <<>> /\ wstatus = "idle" /\ wret = NoRet
    /\ IdleRun /\ IdleJira /\ IdleChunk /\ IdleMerge /\ IdlePipe /\ IdleCmd

NextRetry ==
    \/ WrapperEnter
    \/ WrapperCall
    \/ WrapperSleep

SpecRetry == InitRetry /\ [][NextRetry]_vars

InitChunk ==
    /\ impl = "layered"
    /\ config = LoadConfig([RetryCount |-> 1, RetryDelaySeconds |-> 1])
    /\ breakdown = <<>>
    /\ pc = "chunk"
    /\ wrapper = "none"
    /\ IdleRun /\ IdleCall /\ IdleJira /\ IdleMerge /\ IdlePipe /\ IdleCmd
    /\ text \in Texts
    /\ chunkSize \in 0..MaxChunkSize
    /\ chunks = <<>> /\ ochunks = <<>> /\ applied = {}

NextChunk ==
    \/ CallSplitIntoChunks
    \/ CallChunkContent
    \/ ChunkContentSpins

SpecChunk == InitChunk /\ [][NextChunk]_vars

\* epic lists that differ in title and priority
ByPriority ==
    UNION {[1..n -> {Epic(t, <<"x">>, pr, 0, <<>>) : t \in EpicTitles, pr \in Priorities}] :
              n \in 0..MaxMergeEpics}

\* epic lists that differ in title and description
ByDescription ==
    UNION {[1..n -> {Epic(t, d, "Medium", 0, <<>>) : t \in EpicTitles, d \in EpicDescriptions}] :
              n \in 0..MaxMergeEpics}

\* the stories st cut into n story lists of g[1], ..., g[n] stories
Deal(st, g, k) == SubSeq(st, Sum(g, k - 1) + 1, Sum(g, k))

\* epic lists that differ in title and in the titles of their stories
WithStories(ts, g, st) ==
    [k \in DOMAIN ts |-> Epic(ts[k], <<"x">>, "Medium", 0,
                              [m \in 1..g[k] |-> Story(Deal(st, g, k)[m], Rep("x", 10), <<>>, 1)])]

InitMerge ==
    /\ impl = "layered"
    /\ config = LoadConfig([RetryCount |-> 1, RetryDelaySeconds |-> 1])
    /\ breakdown = <<>>
    /\ pc = "merge"
    /\ wrapper = "none"
    /\ IdleRun /\ IdleCall /\ IdleJira /\ IdleChunk /\ IdlePipe /\ IdleCmd
    /\ \/ epics \in ByPriority \cup ByDescription
       \/ \E n \in 1..MaxMergeEpics :
            \E g \in {h \in [1..n -> 0..MaxMergeStories] : Sum(h, n) \in 1..MaxMergeStories} :
                \E ts \in [1..n -> EpicTitles], st \in [1..Sum(g, n) -> StoryTitles] :
                    epics = WithStories(ts, g, st)
    /\ merged = <<>> /\ remerged = <<>> /\ stories = <<>> /\ deduped = <<>>

NextMerge ==
    \/ CallMergeEpics
    \/ CallMergeEpicsAgain

SpecMerge == InitMerge /\ [][NextMerge]_vars

StoryLists ==
    UNION {[1..n -> {Story(t, d, ac, 1) :
                        t \in StoryTitles, d \in StoryDescriptions, ac \in CriteriaLists}] :
              n \in 0..MaxDedupStories}

InitDedup ==
    /\ impl = "layered"
    /\ config = LoadConfig([RetryCount |-> 1, RetryDelaySeconds |-> 1])
    /\ breakdown = <<>>
    /\ pc = "dedup"
    /\ wrapper = "none"
    /\ IdleRun /\ IdleCall /\ IdleJira /\ IdleChunk /\ IdlePipe /\ IdleCmd
    /\ stories \in StoryLists
    /\ epics = <<>> /\ merged = <<>> /\ remerged = <<>> /\ deduped = <<>>

NextDedup == CallDeduplicateStories

SpecDedup == InitDedup /\ [][NextDedup]_vars

\* inputs of 3, 6, ... characters and a chunk size of 4: one, two, ... chunks
InitPipeline ==
    /\ impl = "layered"
    /\ config = LoadConfig([RetryCount |-> 2, RetryDelaySeconds |-> 1])
    /\ breakdown = <<>>
    /\ pc = "read"
    /\ wrapper = "none"
    /\ IdleRun /\ IdleCall /\ IdleJira /\ IdleMerge /\ IdlePipe /\ IdleCmd
    /\ text \in {Rep("a", 3 * n) : n \in 1..MaxPipeChunks}
    /\ chunkSize = 4
    /\ chunks = <<>> /\ ochunks = <<>> /\ applied = {}

NextPipeline ==
    \/ ReadAndChunk
    \/ WrapperCall
    \/ WrapperSleep
    \/ ChunkReturned
    \/ CallMergeEpics
    \/ Finalize

SpecPipeline == InitPipeline /\ [][NextPipeline]_vars

\* n lines "aa": with a chunk size of 4 both chunkers cut them into n chunks
TextOfLines(n) == [k \in 1..(3 * n) |-> IF k % 3 = 0 THEN NL ELSE "a"]

\* inputs of one, two, ... chunks
PipeTexts == {TextOfLines(n) : n \in 1..MaxPipeChunks}

\* both builds analyse an input; processing.save_intermediate is on or off
InitAnalyze ==
    /\ impl \in Impls
    /\ config = LoadedConfig(impl, [RetryCount |-> 2, RetryDelaySeconds |-> 1])
    /\ \E save \in BOOLEAN :
          opts = [command |-> "process", mode |-> "full", dryRun |-> FALSE,
                  saveIntermediate |-> save]
    /\ breakdown = <<>>
    /\ pc = IF impl = "monolith" THEN "analyze" ELSE "read"
    /\ wrapper = "none"
    /\ IdleRun /\ IdleCall /\ IdleJira /\ IdleMerge /\ IdlePipe
    /\ text \in PipeTexts
    /\ chunkSize = 4
    /\ chunks = <<>> /\ ochunks = <<>> /\ applied = {}
    /\ aiCalls = <<>> /\ answer = NoAnswer /\ displayed = FALSE
    /\ disk = NoDisk /\ loaded = NotLoaded /\ exit = NotExited

NextAnalyze ==
    \/ ReadAndChunk
    \/ ChunkReturned
    \/ Finalize
    \/ AnalyzeStart
    \/ DirectAI
    \/ MonoChunkReturned
    \/ MonoFinalize
    \/ CallMergeEpics
    \/ WrapperCall
    \/ WrapperSleep

SpecAnalyze == InitAnalyze /\ [][NextAnalyze]_vars

\* a short input (one chunk) and a long one (two chunks)
CommandTexts == {TextOfLines(1), TextOfLines(1) \o TextOfLines(1)}

\* command lines of a build.  The layered process command has no --dry-run
\* flag; create-from-analysis has no --mode flag.
CommandLines(im) ==
    [command : {"process"}, mode : IF im = "monolith" THEN Modes ELSE {"full", "analyze-only"},
     dryRun : IF im = "monolith" THEN BOOLEAN ELSE {FALSE}, saveIntermediate : BOOLEAN]
    \cup [command : {"create-from-analysis"}, mode : {"full"}, dryRun : BOOLEAN,
          saveIntermediate : {FALSE}]

\* breakdowns an earlier process command may have left in the analysis file
StoredBreakdowns(im) ==
    IF im = "monolith"
      THEN {[ProjectName |-> <<"Shop">>, Overview |-> "overview", Epics |-> es,
             TotalChunks |-> 2, InputFileSize |-> 6, ProcessingMode |-> "full"] :
               es \in {<<>>, Tagged(<<AuthEpic>>, 1), Tagged(<<PayEpic, AuthEpicAgain>>, 2)}}
      ELSE {[ProjectName |-> <<"Shop">>, Overview |-> "overview", Epics |-> es,
             TotalEpics |-> Len(es), TotalStories |-> TotalStories(es),
             TotalStoryPoints |-> Points(es), ProcessedChunks |-> 2] :
               es \in {<<>>, <<AuthEpic>>, <<PayEpic, AuthEpicAgain>>}}

InitCommand ==
    /\ impl \in Impls
    /\ config = LoadedConfig(impl, [RetryCount |-> 2, RetryDelaySeconds |-> 1])
    /\ opts \in CommandLines(impl)
    /\ breakdown = <<>>
    /\ pc = "start"
    /\ wrapper = "none"
    /\ IdleRun /\ IdleCall /\ IdleJira /\ IdleMerge /\ IdlePipe
    /\ chunks = <<>> /\ ochunks = <<>> /\ applied = {}
    /\ IF opts.command = "process"
         THEN /\ text \in CommandTexts
              /\ chunkSize = 4
              /\ disk = NoDisk
         ELSE /\ text = <<>>
              /\ chunkSize = 0
              /\ \E file \in {NoFile} \cup {SaveJSON(impl, b, "full") : b \in StoredBreakdowns(impl)} :
                    disk = [analysis |-> file, chunks |-> {}]
    /\ aiCalls = <<>> /\ answer = NoAnswer /\ displayed = FALSE
    /\ loaded = NotLoaded /\ exit = NotExited

NextCommand ==
    \/ runProcess
    \/ ReadAndChunk
    \/ ChunkReturned
    \/ Finalize
    \/ ProcessReturned
    \/ processProject
    \/ AnalyzeStart
    \/ DirectAI
    \/ MonoChunkReturned
    \/ MonoFinalize
    \/ Analyzed
    \/ LoadAnalysis
    \/ Confirm
    \/ CallMergeEpics
    \/ WrapperCall
    \/ WrapperSleep
    \/ ListProjects
    \/ GetProjectInfo
    \/ BeginCreate
    \/ EpicReturned
    \/ StoryReturned
    \/ PauseStory
    \/ PauseEpic
    \/ CreateReturned

SpecCommand == InitCommand /\ [][NextCommand]_vars

(***************************************************************************)
(* The analysis file written and read back                                 *)
(***************************************************************************)
MaxStoreEpics   == 1   \* epics of a breakdown that is saved
MaxStoreStories == 1   \* stories of each of them

\* stories of a saved breakdown: every field at its zero value, and set
StoreStories ==
    {[Title |-> <<>>, Description |-> <<>>, StoryPoints |-> 0, Priority |-> "",
      AcceptanceCriteria |-> <<>>, Dependencies |-> <<>>],
     Story(<<"L", "o", "g", "i", "n">>, Rep("x", 10), <<"c">>, 3),
     [Story(<<"L", "o", "g", "i", "n">>, Rep("x", 10), <<>>, 0) EXCEPT
         !.Priority = "High", !.Dependencies = <<"d", "e">>],
     [Story(<<"L", "o", "g", "o", "u", "t">>, <<>>, <<"c", "c">>, 5) EXCEPT
         !.Dependencies = <<"d">>]}

StoreEpics ==
    {Epic(t, <<"x">>, pr, c, ss) :
        t \in {<<"A", "u", "t", "h">>}, pr \in {"", "High"}, c \in 0..1,
        ss \in UNION {[1..n -> StoreStories] : n \in 0..MaxStoreStories}}

\* breakdowns a process command may hold when it saves
StoreBreakdowns(im) ==
    LET lists == UNION {[1..n -> StoreEpics] : n \in 0..MaxStoreEpics}
    IN  IF im = "monolith"
          THEN {[ProjectName |-> id[1], Overview |-> id[2], Epics |-> es,
                 TotalChunks |-> tc, InputFileSize |-> 3 * tc, ProcessingMode |-> m] :
                   id \in Identities \cup {<<<<>>, "">>}, es \in lists,
                   tc \in {0, 2}, m \in {"", "full"}}
          ELSE {[ProjectName |-> id[1], Overview |-> id[2], Epics |-> es,
                 TotalEpics |-> Len(es), TotalStories |-> TotalStories(es),
                 TotalStoryPoints |-> Points(es), ProcessedChunks |-> pcs] :
                   id \in Identities \cup {<<<<>>, "">>}, es \in lists, pcs \in {0, 2}}

\* the description of a story's task: the description, the acceptance
\* criteria as bullets and, if there are any, the dependencies
FullDescription(story) ==
    [Description |-> story.Description,
     Criteria    |-> story.AcceptanceCriteria,
     Depends     |-> story.Dependencies]

\* the create-issue calls CreateTicketsFromBreakdown makes for a breakdown when
\* the tracker accepts them all: CreateEpic, then CreateTask for each story
IssueCalls(es) ==
    [e \in DOMAIN es |->
        [Epic  |-> <<es[e].Title, es[e].Description, es[e].Priority>>,
         Tasks |-> [k \in DOMAIN es[e].Stories |->
                       <<es[e].Stories[k].Title, FullDescription(es[e].Stories[k]),
                         es[e].Stories[k].Priority>>]]]

CallSaveJSON ==
    /\ pc = "save"
    /\ disk' = [disk EXCEPT !.analysis = SaveJSON(impl, final.breakdown, opts.mode)]
    /\ pc' = "load"
    /\ UNCHANGED <<answer, displayed, loaded, exit>>
    /\ UNCHANGED <<chunkNo, projectName, overview, totalStories, totalStoryPoints, final>>
    /\ UNCHANGED <<i, j, epicKey, createdEpics, created, result, projects, infoOk>>
    /\ UNCHANGED <<callVars, inputVars, jiraVars, chunkVars, mergeVars, aiCalls>>

CallLoadJSON ==
    /\ pc = "load"
    /\ loaded' = [done |-> TRUE, breakdown |-> LoadJSON(impl, disk.analysis)]
    /\ pc' = "loaded"
    /\ UNCHANGED <<answer, displayed, disk, exit>>
    /\ UNCHANGED <<i, j, epicKey, createdEpics, created, result, projects, infoOk>>
    /\ UNCHANGED <<callVars, inputVars, jiraVars, chunkVars, mergeVars, pipeVars, aiCalls>>

InitStore ==
    /\ impl \in Impls
    /\ config = LoadedConfig(impl, [RetryCount |-> 2, RetryDelaySeconds |-> 1])
    /\ opts \in [command : {"process"}, mode : {"full", "analyze-only"},
                 dryRun : {FALSE}, saveIntermediate : {FALSE}]
    /\ breakdown = <<>>
    /\ pc = "save"
    /\ wrapper = "none"
    /\ IdleRun /\ IdleCall /\ IdleJira /\ IdleChunk /\ IdleMerge
    /\ chunkNo = 0 /\ projectName = <<>> /\ overview = ""
    /\ totalStories = 0 /\ totalStoryPoints = 0
    /\ \E b \in StoreBreakdowns(impl) :
          final = [done |-> TRUE, ok |-> TRUE, err |-> "", chunk |-> 0, breakdown |-> b]
    /\ aiCalls = <<>> /\ answer = NoAnswer /\ displayed = FALSE
    /\ disk = NoDisk /\ loaded = NotLoaded /\ exit = NotExited

NextStore ==
    \/ CallSaveJSON
    \/ CallLoadJSON

SpecStore == InitStore /\ [][NextStore]_vars


(***************************************************************************)
(* Properties of the ticket-creation run (Spec)                            *)
(***************************************************************************)
Calls(t)  == Cardinality({k \in 1..Len(t) : t[k].ev = "call"})
Sleeps(t) == Cardinality({k \in 1..Len(t) : t[k].ev = "sleep"})
Fails(t)  == Cardinality({k \in 1..Len(t) : t[k].ev = "call" /\ ~t[k].ok})

Range(f) == {f[k] : k \in DOMAIN f}

\* the run has returned the error of epic i
EpicFailed == result.done /\ ~result.ok /\ result.stage = "epic"

\* every epic of the breakdown was reported as created
AllEpicsCreated ==
    \A e \in 1..Len(breakdown) :
        \E r \in Range(created) : r.Kind = "Epic" /\ r.Title = breakdown[e].Title

AllTitles ==
    UNION {{breakdown[e].Title} \cup Range(breakdown[e].Stories) : e \in 1..Len(breakdown)}

C1_AtFailure ==
    EpicFailed =>
        /\ i \in 1..Len(breakdown)
        /\ result.epic = breakdown[i].Title
        /\ Fails(trace) = 3 /\ Calls(trace) = 3
        /\ lastReq.Summary = breakdown[i].Title /\ lastReq.IssueType = "Epic"
        /\ \A t \in attempted : t[1] < i \/ t = breakdown[i].Title
        /\ \A r \in Range(created) : r.Title[1] < i
        /\ \A r \in Range(created) : \E x \in Range(tracker) : x.Key = r.Key
        /\ \A x \in Range(tracker) : x.Fields.Summary[1] < i \/ x.Fields.Summary = breakdown[i].Title
        /\ i = 1 => created = <<>> /\ (lost = 0 => tracker = <<>>)

C1_Step ==
    /\ (pc = "epic" /\ wstatus = "err") =>
          (pc' = "done" /\ result' = Failure("epic", breakdown[i].Title, wret))
    /\ result.done => (nCalls' = nCalls /\ tracker' = tracker /\ created' = created)
    /\ Len(tracker') >= Len(tracker) /\ SubSeq(tracker', 1, Len(tracker)) = tracker

\* C1: an epic whose create-issue call fails on all 3 attempts ends the run
\* with an error naming that epic; no create-issue call follows, for its
\* stories or for later epics; what was created before stays in the tracker;
\* if it is the first epic, no ticket is created.
C1_EpicFailureAborts == [](C1_AtFailure) /\ [][C1_Step]_vars

C1_Witness ==
    /\ EpicFailed /\ i = 2
    /\ Len(created) >= 2 /\ Len(tracker) >= 2
    /\ Len(breakdown[2].Stories) >= 1

C2_Step ==
    (pc = "story" /\ wstatus = "err") =>
        /\ created' = created
        /\ IF j < Len(breakdown[i].Stories)
             THEN pc' = "story" /\ i' = i /\ j' = j + 1 /\ wstatus' = "call"
                  /\ args'.title = breakdown[i].Stories[j + 1]
             ELSE IF i < Len(breakdown)
                    THEN \/ pc' = "pause_epic" /\ impl = "monolith"
                         \/ pc' = "epic" /\ i' = i + 1 /\ wstatus' = "call"
                            /\ args'.title = breakdown[i + 1].Title
                    ELSE pc' = "done" /\ result' = OkResult

C2_AtEnd ==
    /\ (result.done /\ infoOk = "ok" /\ AllEpicsCreated) => (result.ok /\ attempted = AllTitles)
    /\ (result.done /\ result.ok) => AllEpicsCreated

\* C2: a story whose create-issue call fails on all 3 attempts does not end
\* the run: the next story of the epic, or the next epic, is attempted next,
\* and the run returns nil whenever every epic was created.
C2_StoryFailureContinues == [](C2_AtEnd) /\ [][C2_Step]_vars

C2_Witness ==
    /\ result.done /\ result.ok
    /\ Len(breakdown) = 2 /\ Len(breakdown[1].Stories) = 2
    /\ \A r \in Range(created) : r.Title # breakdown[1].Stories[1]
    /\ \E r \in Range(created) : r.Title = breakdown[1].Stories[2]
    /\ \E r \in Range(created) : r.Title = breakdown[2].Title

PreCheckPassed ==
    /\ projects.asked /\ projects.ok /\ ProjectKey \in projects.keys
    /\ infoOk = "ok"

PreCheckFailed ==
    \/ projects.asked /\ ~projects.ok
    \/ projects.asked /\ ProjectKey \notin projects.keys
    \/ infoOk = "fail"

\* C3: no create-issue call without a successful pre-check (projects listed,
\* configured key among them, project info read); a failed pre-check ends the
\* run in failure with no ticket created.
C3_PreCheckFirst ==
    /\ (nCalls > 0 \/ wstatus # "idle" \/ tracker # <<>>) => PreCheckPassed
    /\ PreCheckFailed =>
          /\ result.done /\ ~result.ok
          /\ nCalls = 0 /\ tracker = <<>> /\ created = <<>> /\ wstatus = "idle"

C3_Witness ==
    /\ projects.asked /\ projects.ok /\ projects.keys = {"OTHER"}
    /\ result.done /\ ~result.ok /\ nCalls = 0

KeyOfEpic(title) == (CHOOSE p \in createdEpics : p[1] = title)[2]

\* C4: a create-issue call for a story has kind Task and the key returned for
\* its own epic as parent; the epic was created before; the stories of an
\* epic are all attempted before the next epic is.
C4_StoryUnderItsEpic ==
    /\ lastReq.Summary[2] > 0 =>
          /\ lastReq.IssueType = "Task"
          /\ \E p \in createdEpics : p[1] = EpicTitle(lastReq.Summary[1])
          /\ lastReq.Parent = KeyOfEpic(EpicTitle(lastReq.Summary[1]))
          /\ lastReq.Parent # NoKey
          /\ \E r \in Range(created) :
                r = Report("Epic", EpicTitle(lastReq.Summary[1]), lastReq.Parent)
          /\ \E x \in Range(tracker) :
                /\ x.Key = lastReq.Parent
                /\ x.Fields.IssueType = "Epic"
                /\ x.Fields.Summary = EpicTitle(lastReq.Summary[1])
    /\ lastReq # NoReq =>
          \A e \in 1..(lastReq.Summary[1] - 1) :
              {breakdown[e].Title} \cup Range(breakdown[e].Stories) \subseteq attempted
    /\ lastReq.Summary[2] > 1 =>
          \A k \in 1..(lastReq.Summary[2] - 1) :
              breakdown[lastReq.Summary[1]].Stories[k] \in attempted

C4_Witness ==
    /\ lastReq.IssueType = "Task" /\ lastReq.Summary = StoryTitle(2, 1)
    /\ lastReq.Parent = 3
    /\ tracker[1].Fields.IssueType = "Epic" /\ tracker[2].Fields.IssueType = "Task"

(***************************************************************************)
(* Properties of the retry wrappers (SpecRetry)                            *)
(***************************************************************************)
N == MaxAttempts(wrapper)

Entered == wstatus # "idle"

\* C5: with maxAttempts = N the operation is called at most N times, with at
\* most N-1 sleeps (none when N is 0); success is returned at the first
\* successful attempt, an error only after N failed attempts.
C5_BoundedAttempts ==
    Entered =>
        /\ Calls(trace) <= N
        /\ Sleeps(trace) <= (IF N >= 1 THEN N - 1 ELSE 0)
        /\ wstatus = "ok" =>
              /\ trace[Len(trace)] = CallEv(TRUE, NoErr)
              /\ Fails(trace) = Calls(trace) - 1
              /\ wret.ok
        /\ wstatus = "err" =>
              /\ Fails(trace) = N /\ Calls(trace) = N
              /\ ~wret.ok
        /\ (wstatus \in {"call", "sleep"}) => (Fails(trace) = Calls(trace) /\ Calls(trace) < N)

C5_Witness ==
    /\ wrapper = "ProcessWithRetry" /\ N = 4
    /\ wstatus = "err" /\ Calls(trace) = 4 /\ Sleeps(trace) = 3

C6_Trace ==
    /\ \A k \in 1..Len(trace) :
         trace[k].ev = "sleep" =>
            /\ k > 1 /\ trace[k - 1].ev = "call" /\ ~trace[k - 1].ok
            /\ Calls(SubSeq(trace, 1, k)) < N
            /\ IF k < Len(trace) THEN trace[k + 1].ev = "call" ELSE wstatus = "call"
    /\ \A k \in 1..Len(trace) :
         (trace[k].ev = "call" /\ trace[k].ok) => (k = Len(trace) /\ wstatus = "ok")
    /\ wstatus = "err" => (Len(trace) = 0 \/ trace[Len(trace)].ev = "call")
    /\ (wstatus = "ok" /\ N = 3 /\ Fails(trace) = 2) => (Calls(trace) = 3 /\ Sleeps(trace) = 2)

\* C6: a sleep only lies between a failed attempt k < maxAttempts and attempt
\* k+1; nothing follows a successful attempt and no sleep follows the last
\* failed attempt; two failures then a success under maxAttempts = 3 make 3
\* calls and 2 sleeps.
C6_SleepsBetweenAttempts ==
    [](C6_Trace) /\ [][(wstatus \in {"ok", "err"} /\ pc = "wrapper") => trace' = trace]_vars

C6_Witness ==
    /\ wrapper = "createJiraIssueWithRetry"
    /\ wstatus = "ok" /\ Len(trace) = 5
    /\ trace[2].ev = "sleep" /\ trace[4].ev = "sleep"

\* C7: the error of an exhausted wrapper carries the error of the last
\* attempt; the layered wrappers wrap it (%w).
C7_LastErrorWrapped ==
    (wstatus = "err" /\ N >= 1) =>
        /\ wret.cause = trace[Len(trace)].err
        /\ wret.cause.attempt = N
        /\ wret.cause # NoErr
        /\ wrapper \in {"ProcessWithRetry", "CreateIssueWithRetry"} => wret.wraps

C7_Witness ==
    /\ wrapper = "CreateIssueWithRetry" /\ wstatus = "err"
    /\ trace[1].err.kind = "lost" /\ wret.cause.kind = "rejected"

\* C8: a create-issue operation is attempted at most 3 times with 2 seconds
\* between attempts whatever the configuration says; an AI call is attempted
\* at most retry_count times with retry_delay_seconds between attempts.
C8_FixedVersusConfigured ==
    /\ wrapper \in JiraWrappers =>
          /\ Calls(trace) <= 3
          /\ wstatus = "err" => Calls(trace) = 3
          /\ \A k \in 1..Len(trace) : trace[k].ev = "sleep" => trace[k].d = 2
    /\ wrapper \in AIWrappers =>
          /\ Calls(trace) <= config.RetryCount
          /\ wstatus = "err" => Calls(trace) = config.RetryCount
          /\ \A k \in 1..Len(trace) :
                trace[k].ev = "sleep" => trace[k].d = config.RetryDelaySeconds

C8_Witness ==
    /\ wrapper = "CreateIssueWithRetry"
    /\ config.RetryCount = 1 /\ config.RetryDelaySeconds = 3
    /\ wstatus = "err" /\ Calls(trace) = 3 /\ Sleeps(trace) = 2

(***************************************************************************)
(* Properties of the chunkers (SpecChunk)                                  *)
(***************************************************************************)
RECURSIVE Concat(_)
Concat(ss) == IF ss = <<>> THEN <<>> ELSE Head(ss) \o Concat(Tail(ss))

\* the lines of a text: the runs between line feeds, without the empty run
\* after a final line feed
Lines(s) ==
    LET parts == Split(s)
    IN  IF parts[Len(parts)] = <<>> THEN SubSeq(parts, 1, Len(parts) - 1) ELSE parts

DidSplit   == "splitIntoChunks" \in applied
DidOverlap == "chunkContent" \in applied

Fresh(c, k) ==
    IF k = 1 THEN c
    ELSE SubSeq(c, (IF chunkSize \div 4 < Len(c) THEN chunkSize \div 4 ELSE Len(c)) + 1, Len(c))

C10_SingleChunkIdentity ==
    /\ (DidSplit   /\ Len(text) <= SplitLimit) => chunks = <<text>>
    /\ (DidOverlap /\ Len(text) <= chunkSize)  => ochunks = <<text>>

C10_Witness ==
    /\ DidSplit /\ DidOverlap
    /\ Len(text) = chunkSize /\ Len(text) >= 4
    /\ Len(Split(text)) >= 3

\* lines, each followed by its line feed, written one after the other
Terminated(ls) == Concat([k \in 1..Len(ls) |-> ls[k] \o <<NL>>])

\* c is a run of whole lines of t, with or without the last line feed
WholeLines(c, t) ==
    \E a, b \in 1..Len(Split(t)) :
        /\ a <= b
        /\ \/ c = Terminated(SubSeq(Split(t), a, b))
           \/ c \o <<NL>> = Terminated(SubSeq(Split(t), a, b))

\* C11 as stated: a text longer than the limit is cut into chunks of whole lines
C11_WholeLines ==
    /\ (DidSplit   /\ Len(text) > SplitLimit) =>
           \A k \in 1..Len(chunks) : WholeLines(chunks[k], text)
    /\ (DidOverlap /\ Len(text) > chunkSize) =>
           \A k \in 1..Len(ochunks) : WholeLines(ochunks[k], text)

\* the offset of a window of chunkContent
WindowStart(k) == (k - 1) * (chunkSize - chunkSize \div 4)

\* C11 (amended): splitIntoChunks cuts a text longer than the limit after line
\* feeds only: every chunk is a run of whole lines of the text, each with its
\* line feed, and every chunk ends where a line of the text ends; chunkContent
\* cuts by character offsets: chunk k is the window of chunkSize characters
\* (fewer at the end of the text) that starts at (k-1) * (chunkSize - chunkSize/4),
\* wherever the lines are.
C11_LineChunkerOnly ==
    /\ (DidSplit /\ Len(text) > SplitLimit) =>
           \A k \in 1..Len(chunks) :
               /\ \E a, b \in 1..Len(Split(text)) :
                     a <= b /\ chunks[k] = Terminated(SubSeq(Split(text), a, b))
               /\ LET p == Len(Concat(SubSeq(chunks, 1, k)))
                  IN  p <= Len(text) + 1 /\ (text \o <<NL>>)[p] = NL
    /\ (DidOverlap /\ Len(text) > chunkSize) =>
           \A k \in 1..Len(ochunks) :
               /\ WindowStart(k) < Len(text)
               /\ ochunks[k] = Slice(text, WindowStart(k),
                                     IF WindowStart(k) + chunkSize > Len(text)
                                       THEN Len(text) ELSE WindowStart(k) + chunkSize)

\* a text of three lines cut into two chunks by splitIntoChunks, and cut inside
\* a line by chunkContent
C11_Witness ==
    /\ DidSplit /\ DidOverlap
    /\ Len(text) > SplitLimit /\ chunkSize >= 2
    /\ Len(chunks) = 2 /\ Len(Split(text)) = 3 /\ Len(Split(chunks[1])) = 3
    /\ Len(ochunks) >= 2 /\ ochunks[1][Len(ochunks[1])] # NL

\* C12: a line longer than the limit is a chunk of its own in splitIntoChunks:
\* the chunk that holds it is that line and its line feed, and the long lines
\* of the chunks are the long lines of the text, in order.
C12_LongLineAlone ==
    DidSplit =>
        LET IsLong(l) == Len(l) > SplitLimit
        IN  /\ \A k \in 1..Len(chunks) :
                  \A m \in 1..Len(Lines(chunks[k])) :
                      IsLong(Lines(chunks[k])[m]) => chunks[k] = Lines(chunks[k])[m] \o <<NL>>
            /\ SelectSeq(Concat([k \in 1..Len(chunks) |-> Lines(chunks[k])]), IsLong)
                   = SelectSeq(Split(text), IsLong)

\* a long line after a chunk that still had room, and one between two short lines
C12_Witness ==
    /\ DidSplit
    /\ \/ /\ Len(chunks) = 2
          /\ Len(chunks[1]) < SplitLimit
          /\ Len(chunks[2]) > SplitLimit + 1
       \/ /\ Len(chunks) = 3
          /\ Len(chunks[1]) <= SplitLimit
          /\ Len(chunks[2]) > SplitLimit + 1
          /\ Len(chunks[3]) <= SplitLimit

(***************************************************************************)
(* Properties of the merger (SpecMerge, SpecDedup)                         *)
(***************************************************************************)
Keys(es) == {TitleKey(es[k].Title) : k \in DOMAIN es}

\* the epics (or stories) of es whose title has this key, in order
Group(es, key) ==
    LET HasKey(e) == TitleKey(e.Title) = key
    IN  SelectSeq(es, HasKey)

Merged == pc \in {"merged", "remerged"}

\* C13: the merger returns one epic for each normalized title of its input and
\* no epic it returns has two stories with the same normalized title.
C13_OnePerKey ==
    Merged =>
        /\ Keys(merged) = Keys(epics)
        /\ \A a, b \in DOMAIN merged :
              a # b => TitleKey(merged[a].Title) # TitleKey(merged[b].Title)
        /\ \A k \in DOMAIN merged :
              \A a, b \in DOMAIN merged[k].Stories :
                  a # b => TitleKey(merged[k].Stories[a].Title) # TitleKey(merged[k].Stories[b].Title)

\* three epics become two, two stories with the same key become one
C13_Witness ==
    /\ pc = "merged"
    /\ Len(epics) = 3 /\ Len(merged) = 2
    /\ TotalStories(epics) = 2 /\ TotalStories(merged) = 1

\* C14: merging what the merger returned gives the same normalized epic keys
\* and the same number of stories (and of epics).
C14_Idempotent ==
    pc = "remerged" =>
        /\ Keys(remerged) = Keys(merged)
        /\ Len(remerged) = Len(merged)
        /\ TotalStories(remerged) = TotalStories(merged)

C14_Witness ==
    /\ pc = "remerged"
    /\ Len(epics) = 3 /\ Len(merged) = 2 /\ Len(remerged) = 2
    /\ TotalStories(epics) = 2 /\ TotalStories(merged) = 1 /\ TotalStories(remerged) = 1

\* the priority kept when an epic with priority `incoming` meets `existing`
Escalate(existing, incoming) ==
    IF incoming = "High" THEN "High"
    ELSE IF incoming = "Medium" /\ existing = "Low" THEN "Medium"
    ELSE existing

RECURSIVE EscalateFrom(_, _, _)
EscalateFrom(g, k, pr) ==
    IF k > Len(g) THEN pr ELSE EscalateFrom(g, k + 1, Escalate(pr, g[k].Priority))

Rank(pr) == CASE pr = "High" -> 3 [] pr = "Medium" -> 2 [] pr = "Low" -> 1

\* C15: the priority of a merged epic is the first epic's priority escalated by
\* each later epic of the same key in turn (High wins, Medium replaces Low,
\* otherwise unchanged); among High, Medium and Low it is the highest.
C15_PriorityEscalates ==
    Merged =>
        \A k \in DOMAIN merged :
            LET g == Group(epics, TitleKey(merged[k].Title))
            IN  /\ merged[k].Priority = EscalateFrom(g, 2, g[1].Priority)
                /\ (\A m \in DOMAIN g : g[m].Priority \in {"High", "Medium", "Low"}) =>
                      /\ \E m \in DOMAIN g : merged[k].Priority = g[m].Priority
                      /\ \A m \in DOMAIN g : Rank(merged[k].Priority) >= Rank(g[m].Priority)

\* Low, then Medium, then High under one key
C15_Witness ==
    /\ pc = "merged"
    /\ Len(epics) = 3 /\ Len(merged) = 1
    /\ epics[1].Priority = "Low" /\ epics[2].Priority = "Medium" /\ epics[3].Priority = "High"
    /\ merged[1].Priority = "High"

\* C16: the description of a merged epic is the first description of maximal
\* length among the epics of its key.
C16_LongestFirstSeen ==
    Merged =>
        \A k \in DOMAIN merged :
            LET g == Group(epics, TitleKey(merged[k].Title))
            IN  \E a \in DOMAIN g :
                    /\ merged[k].Description = g[a].Description
                    /\ \A b \in DOMAIN g :
                          /\ Len(g[b].Description) <= Len(g[a].Description)
                          /\ b < a => Len(g[b].Description) < Len(g[a].Description)

\* a short description, then two different ones of the same greater length
C16_Witness ==
    /\ pc = "merged"
    /\ Len(epics) = 3 /\ Len(merged) = 1
    /\ epics[1].Description = <<"x">>
    /\ epics[2].Description = <<"y", "y">>
    /\ epics[3].Description = <<"z", "z">>
    /\ merged[1].Description = <<"y", "y">>

\* the story kept when `incoming` meets `held` under the same key
Prefer(held, incoming) ==
    IF \/ Len(incoming.Description) > Len(held.Description)
       \/ Len(incoming.AcceptanceCriteria) > Len(held.AcceptanceCriteria)
      THEN incoming ELSE held

RECURSIVE Survivor(_, _, _)
Survivor(g, k, held) ==
    IF k > Len(g) THEN held ELSE Survivor(g, k + 1, Prefer(held, g[k]))

LoginPage1 == <<" ", "L", "o", "g", "i", "n", " ", "P", "a", "g", "e", " ">>
LoginPage2 == <<"l", "o", "g", "i", "n", " ", "p", "a", "g", "e">>

\* C17: deduplication returns one story for each normalized title: the first
\* story of that key, replaced in turn by each later one that has a strictly
\* longer description or strictly more acceptance criteria; " Login Page "
\* with 10 characters of description and "login page" with 40 give one story
\* with the 40 characters.
C17_DedupRule ==
    pc = "deduped" =>
        /\ Keys(deduped) = Keys(stories)
        /\ Len(deduped) = Cardinality(Keys(stories))
        /\ \A k \in DOMAIN deduped :
              LET g == Group(stories, TitleKey(deduped[k].Title))
              IN  deduped[k] = Survivor(g, 2, g[1])
        /\ ( /\ Len(stories) = 2
             /\ stories[1].Title = LoginPage1 /\ Len(stories[1].Description) = 10
             /\ stories[2].Title = LoginPage2 /\ Len(stories[2].Description) = 40 )
           => Len(deduped) = 1 /\ deduped[1].Description = stories[2].Description

C17_Witness ==
    /\ pc = "deduped"
    /\ Len(stories) = 2
    /\ stories[1].Title = LoginPage1 /\ Len(stories[1].Description) = 10
    /\ stories[2].Title = LoginPage2 /\ Len(stories[2].Description) = 40
    /\ Len(deduped) = 1 /\ Len(deduped[1].Description) = 40

(***************************************************************************)
(* Properties of the analysis pipeline (SpecPipeline)                      *)
(***************************************************************************)
BreakdownReturned == final.done /\ final.ok

\* C18: the counters of a breakdown returned by ProcessProject are those of its
\* epics: number of epics, number of their stories, sum of their story points,
\* whatever totals the provider reported for the chunks.
C18_CountersFromEpics ==
    BreakdownReturned =>
        LET bd == final.breakdown
        IN  /\ bd.TotalEpics = Len(bd.Epics)
            /\ bd.TotalStories = TotalStories(bd.Epics)
            /\ bd.TotalStoryPoints = Points(bd.Epics)
            /\ bd.Epics = merged

\* two chunks, stories merged away, and reported totals that differ from the counters
C18_Witness ==
    /\ BreakdownReturned
    /\ Len(ochunks) = 2
    /\ totalStories = 9 /\ totalStoryPoints = 18
    /\ Len(epics) = 3 /\ final.breakdown.TotalEpics = 2
    /\ TotalStories(epics) = 3 /\ final.breakdown.TotalStories = 2
    /\ final.breakdown.TotalStoryPoints = 7

(***************************************************************************)
(* Properties of the create-issue request and of the phases of a run       *)
(***************************************************************************)
\* C19: a request of kind Epic carries no parent, whatever the epic link
\* argument; a request carries a parent exactly when its kind is not Epic and
\* the epic link argument is not empty, and the parent is that link.
C19_EpicHasNoParent ==
    /\ lastReq # NoReq =>
          /\ lastReq.IssueType = "Epic" => lastReq.Parent = NoKey
          /\ lastReq.Parent # NoKey <=> (args.issueType # "Epic" /\ args.epicLink # NoKey)
          /\ lastReq.Parent # NoKey => lastReq.Parent = args.epicLink
    /\ \A k \in DOMAIN tracker :
          tracker[k].Fields.IssueType = "Epic" => tracker[k].Fields.Parent = NoKey

\* an epic was requested with an epic link and the tracker created it
C19_Witness ==
    /\ wrapper \in JiraWrappers
    /\ args.issueType = "Epic" /\ args.epicLink # NoKey
    /\ lastReq.IssueType = "Epic" /\ lastReq.Parent = NoKey
    /\ Len(tracker) = 1 /\ wstatus = "ok"

\* the state of a run in the words of the specification
Phase ==
    CASE pc \in {"list_projects", "project_info"}                 -> "Idle"
      [] pc = "verified"                                          -> "ConnectionVerified"
      [] pc \in {"epic", "story", "pause_story", "pause_epic"}    -> "CreatingEpics"
      [] pc = "done" /\ result.ok                                 -> "Done"
      [] pc = "done" /\ ~result.ok                                -> "Failed"

\* C20 as stated: Failed is entered from Idle or ConnectionVerified only
C20_NoFailureWhileCreating ==
    [][Phase' = "Failed" => Phase \in {"Idle", "ConnectionVerified", "Failed"}]_vars

C20_Step ==
    /\ <<Phase, Phase'>> \in
          {<<"Idle", "Idle">>, <<"Idle", "ConnectionVerified">>, <<"Idle", "Failed">>,
           <<"ConnectionVerified", "CreatingEpics">>, <<"ConnectionVerified", "Done">>,
           <<"CreatingEpics", "CreatingEpics">>, <<"CreatingEpics", "Done">>,
           <<"CreatingEpics", "Failed">>}
    /\ (Phase = "ConnectionVerified" /\ Phase' = "Done") => breakdown = <<>>
    /\ (Phase = "CreatingEpics" /\ Phase' = "Failed") =>
          /\ pc = "epic" /\ wstatus = "err"
          /\ result'.stage = "epic" /\ result'.epic = breakdown[i].Title
    /\ (Phase = "Idle" /\ Phase' = "Failed") =>
          result'.stage \in {"authentication", "project key not found", "project access"}

\* C20 (amended): a run moves along Idle -> ConnectionVerified -> CreatingEpics
\* -> Done (straight from ConnectionVerified to Done when the breakdown has no
\* epic); Failed is entered from Idle, by a failed pre-check, and from
\* CreatingEpics, when the creation of an epic has failed after all its
\* attempts, and from nowhere else; Done and Failed are final.
C20_Phases == [][C20_Step]_vars

\* a run that failed while creating epics, after it had created tickets
C20_Witness ==
    /\ Phase = "Failed" /\ result.stage = "epic"
    /\ PreCheckPassed
    /\ Len(created) >= 1 /\ i = 2

(***************************************************************************)
(* Claims about the commands and the analysis pipeline                     *)
(***************************************************************************)
\* the invocation asks for no ticket: --dry-run, or mode analyze-only
DryOrAnalyzeOnly == opts.dryRun \/ (opts.command = "process" /\ opts.mode = "analyze-only")

\* no pre-check call and no create-issue call was made, the coordinator was not entered
NoTrackerCall ==
    /\ ~projects.asked /\ infoOk = "none"
    /\ nCalls = 0 /\ tracker = <<>> /\ attempted = {}
    /\ ~result.done
    /\ pc \notin {"list_projects", "project_info", "verified", "epic", "story",
                  "pause_story", "pause_epic"}

NumChunks ==
    IF impl = "layered" THEN Len(ochunks)
    ELSE IF "splitIntoChunks" \in applied THEN Len(chunks) ELSE 1

\* C22: the requests to the AI provider go through the chunks in ascending
\* order, one chunk at a time: the first request is for chunk 1, a request
\* that failed is followed only by a request for the same chunk, a request
\* that succeeded only by a request for the next chunk, and every request
\* names its chunk's 1-based index and the total number of chunks
C22_ChunksInOrder ==
    /\ \A k \in DOMAIN aiCalls :
         /\ aiCalls[k].totalChunks = NumChunks
         /\ aiCalls[k].chunkIndex \in 1..NumChunks
    /\ aiCalls # <<>> => aiCalls[1].chunkIndex = 1
    /\ \A k \in 1..(Len(aiCalls) - 1) :
         aiCalls[k + 1].chunkIndex =
            IF aiCalls[k].ok THEN aiCalls[k].chunkIndex + 1 ELSE aiCalls[k].chunkIndex

\* chunk 1 of 2 failed once and was retried, then chunk 2 was submitted
C22_Witness ==
    /\ NumChunks = 2
    /\ Len(aiCalls) = 3
    /\ ~aiCalls[1].ok /\ aiCalls[2].ok
    /\ aiCalls[3].chunkIndex = 2 /\ aiCalls[3].totalChunks = 2

Last(s) == s[Len(s)]

\* the AI call of a chunk has failed for good: the wrapper has used up its
\* attempts, or the call that failed was made without a wrapper
AIFailed ==
    /\ aiCalls # <<>>
    /\ ~Last(aiCalls).ok
    /\ Last(aiCalls).retried => wstatus = "err"

\* what a failed chunk entails whatever the error says
AbortsOnFailedChunk ==
    /\ pc \in {"ai", "done", "exit"}
    /\ \A k \in DOMAIN aiCalls : aiCalls[k].chunkIndex <= Last(aiCalls).chunkIndex
    /\ merged = <<>>
    /\ disk.analysis = NoFile
    /\ NoTrackerCall
    /\ pc # "ai" => final.done /\ ~final.ok /\ final.breakdown = NoBreakdown
    /\ exit.done => exit.err \in {"failed to process project", "analysis failed"}

\* every chunk of a run that returned a breakdown was answered by the provider
NoChunkSkipped ==
    (final.done /\ final.ok) =>
        \A n \in 1..NumChunks :
            \E k \in DOMAIN aiCalls : aiCalls[k].chunkIndex = n /\ aiCalls[k].ok

\* C23: when the AI call of a chunk has failed for good the run
\* fails with an error naming that chunk, no later chunk is submitted, no
\* merged breakdown is returned or saved, no ticket is created; no chunk is
\* skipped
C23_FailureNamesChunk ==
    /\ NoChunkSkipped
    /\ AIFailed =>
         /\ AbortsOnFailedChunk
         /\ pc # "ai" => /\ final.err = "failed to process chunk"
                         /\ final.chunk = Last(aiCalls).chunkIndex

\* what the code does when the AI call of a chunk has failed for good: the
\* run fails, no later chunk is submitted, no merged breakdown is returned or
\* saved, no ticket is created, and no chunk is ever skipped.  The error names
\* the chunk when the call was made by the chunk loop; the single-chunk path
\* of the monolithic build returns the provider's error as it is.
C23_FailedChunkAborts ==
    /\ NoChunkSkipped
    /\ AIFailed =>
         /\ AbortsOnFailedChunk
         /\ pc # "ai" =>
              IF Last(aiCalls).retried
                THEN /\ final.err = "failed to process chunk"
                     /\ final.chunk = Last(aiCalls).chunkIndex
                ELSE /\ impl = "monolith" /\ NumChunks = 1
                     /\ final.err = "API request failed"
                     /\ final.chunk = 0

\* chunk 2 of 2 failed after chunk 1 had been answered and saved as an
\* intermediate result, and the command has returned the error
C23_Witness ==
    /\ AIFailed
    /\ Last(aiCalls).chunkIndex = 2 /\ Len(aiCalls) = 3
    /\ disk.chunks = {1}
    /\ final.chunk = 2
    /\ exit.done /\ exit.err # ""


\* the answers the run has read, in the order of the chunks
Answers == SelectSeq(aiCalls, LAMBDA c : c.ok)

RECURSIVE MergedName(_, _, _)
MergedName(names, k, acc) ==
    IF k > Len(names) THEN acc
    ELSE MergedName(names, k + 1, IF names[k] # acc THEN Append(acc, "(Merged)") ELSE acc)

CallsFor(n) == {k \in DOMAIN aiCalls : aiCalls[k].chunkIndex = n}

\* C25: every call of the AI provider is made by the retry wrapper, also when
\* the whole input fits in one chunk: a call that failed is followed by
\* another call for the same chunk as long as attempts remain, so a run fails
\* on a chunk only after retry_count calls for it
C25_AllCallsRetried ==
    /\ \A k \in DOMAIN aiCalls : aiCalls[k].retried
    /\ (final.done /\ ~final.ok /\ aiCalls # <<>>) =>
          Cardinality(CallsFor(Last(aiCalls).chunkIndex)) = config.RetryCount

\* C26: a breakdown saved to the analysis file and loaded back by the same
\* build equals the breakdown that was saved in every field, epics and stories
\* included, and the coordinator makes the same create-issue calls for it
C26_RoundTrip ==
    pc = "loaded" =>
        /\ loaded.breakdown = final.breakdown
        /\ IssueCalls(loaded.breakdown.Epics) = IssueCalls(final.breakdown.Epics)
        /\ Coordinated(loaded.breakdown.Epics) = Coordinated(final.breakdown.Epics)

\* a breakdown with a chunk tag of 0 and a story without dependencies, both
\* left out of the monolithic build's file, has been loaded back
C26_Witness ==
    /\ pc = "loaded"
    /\ Len(final.breakdown.Epics) = 1
    /\ final.breakdown.Epics[1].Chunk = 0
    /\ Len(final.breakdown.Epics[1].Stories) = 1
    /\ final.breakdown.Epics[1].Stories[1].Dependencies = <<>>
    /\ final.breakdown.Epics[1].Stories[1].StoryPoints = 3
    /\ loaded.breakdown.Epics[1].Stories[1].StoryPoints = 3
    /\ impl = "monolith" => "chunk" \notin DOMAIN disk.analysis.json.epics[1]

\* C27: a process command in full mode whose analysis has succeeded and that
\* is not a dry run goes on to ticket creation: it does not return before the
\* user was asked, and after a "y" or "yes" not before the tracker was turned
\* to and the coordinator has given its result
C27_FullModeCreates ==
    (/\ opts.command = "process" /\ opts.mode = "full" /\ ~opts.dryRun
     /\ final.done /\ final.ok
     /\ exit.done /\ exit.err # "failed to save analysis result") =>
        /\ answer.asked
        /\ Confirmed(answer.line) => projects.asked /\ (result.done \/ exit.err # "")

\* C28: failed requests are retried with exponential backoff: within one
\* retry sequence every sleep after the first is longer than the sleep
\* before it
C28_BackoffGrows ==
    \A a, b \in DOMAIN trace :
        (a < b /\ trace[a].ev = "sleep" /\ trace[b].ev = "sleep") => trace[a].d < trace[b].d

\* one step of a run seen by C29: the epics a chunk's answer adds to the
\* merger's input carry that chunk's index, and the merger gives every epic
\* the chunk of the first epic of its key
C29_Step ==
    /\ (pc = "ai" /\ Len(epics') > Len(epics)) =>
          \A k \in (Len(epics) + 1)..Len(epics') : epics'[k].Chunk = chunkNo
    /\ (pc = "merge" /\ pc' = "merged") =>
          \A k \in DOMAIN merged' :
              merged'[k].Chunk = Group(epics, TitleKey(merged'[k].Title))[1].Chunk

\* C29: every epic that enters the merger carries the 1-based index of the
\* chunk whose answer produced it, and a merged epic keeps the chunk index of
\* its first occurrence
C29_ChunkTags == [][C29_Step]_vars

\* the stage a command is in: 1 reading and AI analysis, 2 merge, 3 the
\* breakdown is returned, shown, saved, confirmed, 4 ticket creation (from
\* the pre-check on), 5 the command has returned
Stage ==
    CASE pc \in {"start", "read", "analyze", "direct", "ai"} -> 1
      [] pc \in {"merge", "merged"}                          -> 2
      [] pc = "confirm" \/ (pc = "done" /\ ~result.done)     -> 3
      [] pc = "done" /\ result.done                          -> 4
      [] pc \in {"list_projects", "project_info", "verified", "epic", "story",
                 "pause_story", "pause_epic"}                -> 4
      [] pc = "exit"                                         -> 5

\* a request is sent to the AI provider / the merger runs / the tracker is
\* called by this step
AICallStep  == Len(aiCalls') > Len(aiCalls)
MergeStep   == pc = "merge" /\ pc' = "merged"
TrackerStep == nCalls' # nCalls \/ projects' # projects \/ infoOk' # infoOk

C30_Step ==
    /\ Stage' >= Stage
    /\ AICallStep  => Stage = 1 /\ Stage' \in {1, 3}
    /\ MergeStep   => Stage = 2 /\ merged' \in MergeEpics(epics)
    /\ TrackerStep => Stage = 4
    /\ Stage >= 2  => aiCalls' = aiCalls
    /\ Stage >= 3  => UNCHANGED <<epics, merged>>
    /\ Stage' = 4  => Stage \in {3, 4}

\* C30: the stages of a run occur in one direction only: a step never leads
\* to an earlier stage, once the merge has started no request is sent to the
\* AI provider, and once ticket creation has started neither a request to the
\* AI provider nor a merge occurs
C30_OneDirection == [][C30_Step]_vars

\* a process command has analysed two chunks, merged their epics, created
\* tickets on the tracker and returned
C30_Witness ==
    /\ opts.command = "process"
    /\ Len(Answers) = 2
    /\ Len(epics) = 2 /\ Len(merged) = 1
    /\ tracker # <<>>
    /\ result.done
    /\ pc = "exit" /\ exit.done

(***************************************************************************)
(* Claims C31 to C40                                                       *)
(***************************************************************************)
\* the requests of a log of create-issue calls, and the tracker's answers
RequestsOf(log) == [k \in DOMAIN log |-> log[k].Request]
AnswersOf(log)  == [k \in DOMAIN log |-> log[k].Answer]

\* the create-issue calls and the end of a creation run without any pause, as
\* a function of the breakdown and of the tracker's answers alone: the epics
\* in order, each followed by its stories, up to JiraAttempts calls for each,
\* a story linked to the key the tracker gave to its epic; an epic that fails
\* ends the run, a story that fails is skipped.  e, s: the item (s = 0 for the
\* epic), att: the attempt, ek: the key of epic e, keys: issues the tracker
\* holds, calls: the requests so far.
RECURSIVE Replay(_, _, _, _, _, _, _, _)
Replay(bd, ans, e, s, att, ek, keys, calls) ==
    IF e > Len(bd) THEN [calls |-> calls, end |-> "ok"]
    ELSE IF Len(calls) >= Len(ans) THEN [calls |-> calls, end |-> "running"]
    ELSE
      LET a    == ans[Len(calls) + 1]
          req  == [Project   |-> ProjectKey,
                   Summary   |-> IF s = 0 THEN bd[e].Title ELSE bd[e].Stories[s],
                   IssueType |-> IF s = 0 THEN "Epic" ELSE "Task",
                   Parent    |-> IF s = 0 THEN NoKey ELSE ek]
          held == IF a \in {"ok", "lost"} THEN keys + 1 ELSE keys
          now  == Append(calls, req)
          last == s = Len(bd[e].Stories)
      IN  IF a = "ok"
            THEN IF last THEN Replay(bd, ans, e + 1, 0, 1, NoKey, held, now)
                 ELSE Replay(bd, ans, e, s + 1, 1, IF s = 0 THEN held ELSE ek, held, now)
          ELSE IF att < JiraAttempts
            THEN Replay(bd, ans, e, s, att + 1, ek, held, now)
          ELSE IF s = 0
            THEN [calls |-> now, end |-> "failed"]
          ELSE IF last THEN Replay(bd, ans, e + 1, 0, 1, NoKey, held, now)
          ELSE Replay(bd, ans, e, s + 1, 1, ek, held, now)

\* C31: the pauses do not affect outcomes: in both builds the create-issue
\* calls of a run (summary, kind and parent, in order) and its success or
\* failure are the same function of the breakdown and of the tracker's
\* answers, so the monolithic build with its pauses and the layered build
\* without them make the same calls and end alike on the same answers
C31_PausesDoNotMatter ==
    (issued.on /\ infoOk = "ok") =>
        LET r == Replay(breakdown, AnswersOf(issued.calls), 1, 0, 1, NoKey, 0, <<>>)
        IN  /\ RequestsOf(issued.calls) = r.calls
            /\ pc = "done" => r.end = IF result.ok THEN "ok" ELSE "failed"
            /\ pc # "done" => r.end # "failed" \/ wstatus = "err"

\* the monolithic build has paused after a story and between two epics, the
\* tracker having lost one answer and rejected a request, and has ended well
C31_Witness ==
    /\ issued.on /\ impl = "monolith"
    /\ breakdown = <<EpicOf(1, 1), EpicOf(2, 1)>>
    /\ pc = "done" /\ result.ok
    /\ Len(created) = 4
    /\ \E k \in DOMAIN issued.calls : issued.calls[k].Answer = "lost"
    /\ \E k \in DOMAIN issued.calls : issued.calls[k].Answer = "rejected"

\* c is one single line with its line feed
SingleLine(c) == c # <<>> /\ c[Len(c)] = NL /\ IndexNL(c, 1) = Len(c)

\* c ends where the text t ends (t itself, or t with the line feed that
\* splitIntoChunks writes after the last line)
EndsText(c, t) ==
    \/ (Len(c) <= Len(t) /\ c = SubSeq(t, Len(t) - Len(c) + 1, Len(t)))
    \/ (Len(c) <= Len(t) + 1 /\ c = SubSeq(t \o <<NL>>, Len(t) + 2 - Len(c), Len(t) + 1))

\* the chunks cs of the text under the limit: the sizes with the exception
\* given by Exempt, the last chunk emitted, no chunk empty unless AllowEmpty
Bounded(cs, limit, Exempt(_), AllowEmpty) ==
    /\ cs # <<>>
    /\ \A k \in DOMAIN cs :
         /\ Len(cs[k]) <= limit \/ Exempt(cs[k])
         /\ cs[k] # <<>> \/ AllowEmpty
    /\ EndsText(cs[Len(cs)], text)

\* C32: every chunk has at most the limit's number of characters, line feeds
\* included, unless it is one single line longer than the limit; the final
\* chunk is always emitted and no chunk is empty
C32_BoundedChunks ==
    LET LongLine(c) == SingleLine(c) /\ Len(c) - 1 > SplitLimit
        Never(c)    == FALSE
    IN  /\ DidSplit   => Bounded(chunks, SplitLimit, LongLine, FALSE)
        /\ DidOverlap => Bounded(ochunks, chunkSize, Never, FALSE)

\* C32 (amended): every chunk has at most the limit's number of characters,
\* line feeds included, unless it is one single line that is longer than the
\* limit when its line feed is counted; the final chunk is always emitted, and
\* no chunk is empty unless the text is empty (the one chunk of an empty text
\* is the empty text)
C32_ChunkSizes ==
    LET LongLine(c) == SingleLine(c) /\ Len(c) > SplitLimit
        Never(c)    == FALSE
    IN  /\ DidSplit   => Bounded(chunks, SplitLimit, LongLine, text = <<>>)
        /\ DidOverlap => Bounded(ochunks, chunkSize, Never, text = <<>>)

\* splitIntoChunks has emitted a line of exactly the limit's length as a chunk
\* one longer than the limit, then a shorter last chunk; chunkContent has
\* emitted a full window and a shorter last one
C32_Witness ==
    /\ DidSplit /\ DidOverlap
    /\ Len(chunks) = 2 /\ Len(chunks[1]) = SplitLimit + 1 /\ Len(chunks[2]) < SplitLimit
    /\ Len(ochunks) >= 2 /\ Len(ochunks[1]) = chunkSize
    /\ Len(ochunks[Len(ochunks)]) < chunkSize

\* C33: for each epic and each story of the breakdown the tracker holds at
\* most one issue, whatever the tracker answers, lost answers included
C33_AtMostOneIssue ==
    \A a, b \in DOMAIN tracker :
        tracker[a].Fields.Summary = tracker[b].Fields.Summary => a = b

\* C34: the overlap chunker returns for every content and every chunk size
\* the layered loader accepts, chunk_size_chars of 0 (or absent) included: no
\* call of chunkContent stays in its loop
C34_ChunkContentTerminates == "chunkContent spins" \notin applied

\* C35: for every configuration the loader accepts, retry_count of 0 (or
\* absent) included, ProcessWithRetry has called the AI provider at least once
\* when it reports failure, and the failure wraps an error that one of its
\* provider calls returned
C35_FailureAfterACall ==
    (wrapper = "ProcessWithRetry" /\ wstatus = "err") =>
        /\ Calls(trace) >= 1
        /\ wret.wraps
        /\ \E k \in DOMAIN trace : trace[k].ev = "call" /\ trace[k].err = wret.cause
        /\ wret.cause # NoErr

\* C36: merging loses and misplaces no story: for every input epic and every
\* story of it, the output epic with the input epic's key has a story with
\* that story's key; and every story of an output epic is, unaltered, one of
\* the input stories of an input epic with the output epic's key
C36_NoStoryLost ==
    Merged =>
        /\ \A k \in DOMAIN epics : \A m \in DOMAIN epics[k].Stories :
              \E o \in DOMAIN merged :
                 /\ TitleKey(merged[o].Title) = TitleKey(epics[k].Title)
                 /\ TitleKey(epics[k].Stories[m].Title) \in Keys(merged[o].Stories)
        /\ \A o \in DOMAIN merged : \A n \in DOMAIN merged[o].Stories :
              \E k \in DOMAIN epics :
                 /\ TitleKey(epics[k].Title) = TitleKey(merged[o].Title)
                 /\ \E m \in DOMAIN epics[k].Stories :
                       epics[k].Stories[m] = merged[o].Stories[n]

\* two input epics with one key, whose two stories have different keys, came
\* out as one epic holding both, beside an epic of another key
C36_Witness ==
    /\ pc = "merged"
    /\ Len(epics) = 3 /\ Len(merged) = 2
    /\ \E o \in DOMAIN merged :
          /\ Len(merged[o].Stories) = 2
          /\ Len(Group(epics, TitleKey(merged[o].Title))) = 2
          /\ \A e \in DOMAIN epics :
                TitleKey(epics[e].Title) = TitleKey(merged[o].Title) => Len(epics[e].Stories) = 1

\* no two epics of es have the same key, no epic of es two stories of one key
NoDuplicates(es) ==
    /\ \A a, b \in DOMAIN es : a # b => TitleKey(es[a].Title) # TitleKey(es[b].Title)
    /\ \A a \in DOMAIN es : \A m, n \in DOMAIN es[a].Stories :
          m # n => TitleKey(es[a].Stories[m].Title) # TitleKey(es[a].Stories[n].Title)

\* C37: the breakdown the analysis returns never has two epics whose titles
\* are equal after trim and lowercase, nor an epic with two stories of equal
\* normalized titles, whatever the number of chunks, one chunk included
C37_NoDuplicateKeys == (final.done /\ final.ok) => NoDuplicates(final.breakdown.Epics)

\* the incoming story x replaces the held story y
Beats(x, y) ==
    \/ Len(x.Description) > Len(y.Description)
    \/ Len(x.AcceptanceCriteria) > Len(y.AcceptanceCriteria)

\* deduplicateStories has run on exactly two stories, which share their key
DedupedPair ==
    /\ pc = "deduped"
    /\ Len(stories) = 2
    /\ TitleKey(stories[1].Title) = TitleKey(stories[2].Title)

\* C38: when exactly two stories share a normalized title, the survivor is
\* the same whichever of the two is processed first
C38_OrderFree ==
    DedupedPair => deduplicateStories(<<stories[2], stories[1]>>) = {deduped}

\* C38 (amended): of exactly two stories that share a normalized title the
\* second processed survives when its description or its criteria list is
\* longer than the first's, else the first; so the survivor is the same in
\* both orders exactly when the two are equal or one of them, and only one,
\* is longer than the other in the description or the criteria list
C38_OrderOfTwo ==
    DedupedPair =>
        LET a == stories[1]
            b == stories[2]
        IN  /\ deduped = <<IF Beats(b, a) THEN b ELSE a>>
            /\ (deduplicateStories(<<b, a>>) = {deduped})
                  <=> (a = b \/ Beats(a, b) # Beats(b, a))

\* the first story has the longer description, the second the longer criteria
\* list: the second survives, and would not if it were processed first
C38_Witness ==
    /\ DedupedPair
    /\ Len(stories[1].Description) > Len(stories[2].Description)
    /\ Len(stories[2].AcceptanceCriteria) > Len(stories[1].AcceptanceCriteria)
    /\ deduped = <<stories[2]>>
    /\ deduplicateStories(<<stories[2], stories[1]>>) = {<<stories[1]>>}

\* epics and stories of the breakdown bd
Items(bd) == Len(bd) + Sum([e \in DOMAIN bd |-> Len(bd[e].Stories)], Len(bd))

\* the calls of the log that carry this summary
CallsOf(log, summary) == {k \in DOMAIN log : log[k].Request.Summary = summary}

\* every title of the log has at most JiraAttempts calls, all of them next to
\* each other, and the log is no longer than JiraAttempts calls for each item
OneSequenceEach(log, bd) ==
    /\ Len(log) <= JiraAttempts * Items(bd)
    /\ \A a \in DOMAIN log :
          LET same == CallsOf(log, log[a].Request.Summary)
          IN  /\ Cardinality(same) <= JiraAttempts
              /\ \A b \in same : \A c \in DOMAIN log : (a <= c /\ c <= b) => c \in same

\* C39: every ticket-creation run ends, in success or in failure, when each
\* tracker call returns; it sends at most 3 create-issue requests for each
\* epic and story, each title in one retry sequence that is never taken up again
C39_RunTerminates ==
    /\ <>(pc = "done" /\ result.done)
    /\ [](nCalls = Len(issued.calls) /\ OneSequenceEach(issued.calls, breakdown))

\* an epic was created at the first request, each of its two stories has used
\* its three attempts in vain, one after the other, and the run has ended
C39_Witness ==
    /\ pc = "done" /\ result.done
    /\ Len(breakdown) = 1 /\ Len(breakdown[1].Stories) = 2
    /\ Len(issued.calls) = 1 + 2 * JiraAttempts
    /\ issued.calls[1].Answer = "ok"
    /\ \A k \in 2..Len(issued.calls) : issued.calls[k].Answer # "ok"
    /\ Cardinality(CallsOf(issued.calls, breakdown[1].Stories[1])) = JiraAttempts
    /\ Cardinality(CallsOf(issued.calls, breakdown[1].Stories[2])) = JiraAttempts

\* the line is "y" or "yes" in any case, with blanks before and after it
SaysYes(line) ==
    \E a, b \in 0..Len(line) :
        /\ a + b <= Len(line)
        /\ \A k \in 1..a : line[k] = " "
        /\ \A k \in (Len(line) - b + 1)..Len(line) : line[k] = " "
        /\ ToLower(SubSeq(line, a + 1, Len(line) - b)) \in {<<"y">>, <<"y", "e", "s">>}

\* C40: a tracker call, pre-check or create-issue, is made only outside
\* dry-run and after the user answered the prompt with "y" or "yes" (trimmed,
\* in any case); after any other answer, an empty line or the end of the
\* input, the run ends without a tracker call and without an error
C40_OnlyAfterYes ==
    /\ ~NoTrackerCall => (~opts.dryRun /\ answer.asked /\ SaysYes(answer.line))
    /\ (answer.asked /\ ~SaysYes(answer.line)) =>
          (NoTrackerCall /\ pc = "exit" /\ exit = Exit(""))

\* the user typed " Yes " and issues were created; the run has returned
C40_Witness ==
    /\ answer = [asked |-> TRUE, line |-> <<" ", "Y", "e", "s", " ">>]
    /\ ~opts.dryRun
    /\ projects.asked /\ nCalls > 0 /\ tracker # <<>>
    /\ pc = "exit" /\ exit.done

====
